---- MODULE Spec2Model ----
(***************************************************************************)
(* A model of the value layer of the fb:: Firebird client wrapper:         *)
(* fb::scaled_integer<T> (src/include/types.hpp), its conversion get<U>()  *)
(* and its two text renderings, the pointer-walking to_string(buf, size)   *)
(* of src/include/types.hpp and the snprintf-based one that the generated  *)
(* single header src/single/firebird.hpp still carries; fb::timestamp_t    *)
(* and its conversions from and to time_t; fb::sqlvar, the view of one     *)
(* XSQLVAR column (src/include/sqlvar.hpp), with the type_converter        *)
(* family it reads its value through; fb::sqlda::set, which binds the      *)
(* input parameters of a query, and fb::sqlda::alloc_data, which lays out  *)
(* the row buffer (src/include/sqlda.hpp); and of its connection layer:    *)
(* the database parameter buffer of fb::database                           *)
(* (src/include/database.tcc) and the calls that fb::transaction,          *)
(* fb::query and fb::blob make to the client library                       *)
(* (src/include/transaction.tcc, query.hpp, blob.hpp).                     *)
(*                                                                         *)
(* Each part is a state machine of its own over the variables it uses:     *)
(* Spec (scaled_integer), SpecOwning (the owning to_string() over the      *)
(* whole range of the scale field), SpecTime (timestamp_t), SpecVar        *)
(* (sqlvar), SpecDa (sqlda::set), SpecAlloc (sqlda::alloc_data), SpecDpb   *)
(* (the parameter buffer) and SpecQuery (one query on one transaction of   *)
(* one database, with the log of the client-library calls each operation   *)
(* makes).  A machine leaves the variables of the others at NoObject.      *)
(*                                                                         *)
(* Integers are the machine integers of the code.  TLC computes with 32    *)
(* bit integers, so the storage types modelled are int16_t and int32_t     *)
(* and the conversion targets are char, unsigned char, int16_t, uint16_t   *)
(* and int32_t; int64_t storage is outside what TLC can compute.           *)
(* Characters are their ASCII codes, because the code computes them        *)
(* ((val % 10) + '0').  A pointer into the caller's buffer is its offset   *)
(* from buf; *p is buf[offset + 1].                                        *)
(***************************************************************************)
EXTENDS Integers, Sequences, FiniteSets

VARIABLES
    si,     \* the scaled_integer object: [T, _value, _scale]
    call,   \* the member function called last and its arguments
    buf0,   \* the caller's buffer before the call
    buf,    \* the caller's buffer after the call
    ret,    \* what the call produced
    ts,     \* the timestamp_t object: [timestamp_date, timestamp_time]
    xv,     \* the XSQLVAR a sqlvar views: [sqltype, sqlscale, sqllen, sqldata, sqlind]
    da,     \* the XSQLDA a sqlda owns: [sqld, sqlvar], its data buffer beside it
    ctx,    \* the contexts behind a query, its transaction and its database
    dpb     \* the database parameter buffer: a vector of bytes

vars == <<si, call, buf0, buf, ret, ts, xv, da, ctx, dpb>>

---------------------------------------------------------------------------
(* Bounds of the model. *)

\* mantissas -MaxMantissa .. MaxMantissa are enumerated besides the
\* boundary values of every type
MaxMantissa == 3
\* scales -MaxScale .. MaxScale
MaxScale == 3
\* buffer sizes 0 .. MaxSize handed to to_string(buf, size)
MaxSize == 14

---------------------------------------------------------------------------
(* The integer types of the code. *)

char_t   == [name |-> "char",          size |-> 1, signed |-> TRUE]
uchar_t  == [name |-> "unsigned char", size |-> 1, signed |-> FALSE]
int16_t  == [name |-> "int16_t",       size |-> 2, signed |-> TRUE]
uint16_t == [name |-> "uint16_t",      size |-> 2, signed |-> FALSE]
int32_t  == [name |-> "int32_t",       size |-> 4, signed |-> TRUE]

\* template parameter T of scaled_integer<T>
StorageTypes == {int16_t, int32_t}
\* template parameter U of get<U>()
TargetTypes  == {char_t, uchar_t, int16_t, uint16_t, int32_t}

\* std::numeric_limits<U>::max(), written so that 2^31 is never formed
numeric_limits_max(U) ==
    IF U.signed THEN (2^(8 * U.size - 2) - 1) * 2 + 1
                ELSE 2^(8 * U.size) - 1

\* std::numeric_limits<U>::min()
numeric_limits_min(U) ==
    IF U.signed THEN (0 - numeric_limits_max(U)) - 1 ELSE 0

\* C++ integer division a / b for b > 0: the quotient truncated toward zero
CDiv(a, b) ==
    IF a >= 0 THEN a \div b
              ELSE (a \div b) + (IF a % b = 0 THEN 0 ELSE 1)

\* C++ remainder a % b for b > 0: it has the sign of a
CRem(a, b) == a - b * CDiv(a, b)

\* the integral conversion of v to U (U val = _value; val *= 10): the value
\* itself when U can hold it, else the value modulo 2^N
Convert(U, v) ==
    IF numeric_limits_min(U) <= v /\ v <= numeric_limits_max(U) THEN v
    ELSE LET m == v % (2^(8 * U.size))
         IN  IF U.signed /\ m > numeric_limits_max(U)
             THEN m - 2^(8 * U.size) ELSE m

---------------------------------------------------------------------------
(* scaled_integer<T>::get<U>() *)

\* constexpr const U umax = std::numeric_limits<U>::max() / 10
umax(U) == CDiv(numeric_limits_max(U), 10)
\* constexpr const U umin = std::numeric_limits<U>::min() / 10
umin(U) == CDiv(numeric_limits_min(U), 10)

\* mutant: the operands of the size comparison swapped
NarrowingSwapped(T, U) == T.size < U.size
\* mutant: no width check at all (a value-based check is left to the loop)
NarrowingNever(T, U) == FALSE
\* if constexpr (sizeof(U) < sizeof(T))
Narrowing(T, U) == U.size < T.size

\* mutant: the bounds themselves are rejected
OverflowsStrict(U, val) == val >= umax(U) \/ val =< umin(U)
\* if (val > umax || val < umin) error<U>()
Overflows(U, val) == val > umax(U) \/ val < umin(U)

\* mutant: floor division instead of truncation
Div10Floor(val) == val \div 10
\* val /= 10
Div10(val) == CDiv(val, 10)

\* for (auto x = 0; x < _scale; ++x) { check; val *= 10; }
RECURSIVE MulLoop(_, _, _, _)
MulLoop(U, val, x, scale) ==
    IF x < scale
    THEN IF Overflows(U, val)
         THEN [threw |-> TRUE, val |-> val]
         ELSE MulLoop(U, Convert(U, val * 10), x + 1, scale)
    ELSE [threw |-> FALSE, val |-> val]

\* for (auto x = _scale; x < 0; ++x) val /= 10;
RECURSIVE DivLoop(_, _)
DivLoop(val, x) ==
    IF x < 0 THEN DivLoop(Div10(val), x + 1) ELSE val

\* U get() const: [threw, val]
get(T, U, value, scale) ==
    IF Narrowing(T, U)
    THEN [threw |-> TRUE, val |-> 0]
    ELSE LET m == MulLoop(U, Convert(U, value), 0, scale)
         IN  IF m.threw
             THEN [threw |-> TRUE, val |-> 0]
             ELSE [threw |-> FALSE, val |-> DivLoop(m.val, scale)]

---------------------------------------------------------------------------
(* Characters and decimal text. *)

\* '0'
CharZero == 48
\* '.'
CharDot == 46
\* '-'
CharMinus == 45

\* the decimal digits of |v|, most significant first; none for v = 0
RECURSIVE Digits(_)
Digits(v) ==
    IF v = 0 THEN <<>>
    ELSE Append(Digits(CDiv(v, 10)),
                CharZero + (IF v < 0 THEN 0 - CRem(v, 10) ELSE CRem(v, 10)))

\* what std::to_chars and printf("%li") write for v
DecimalChars(v) ==
    IF v = 0 THEN <<CharZero>>
    ELSE (IF v < 0 THEN <<CharMinus>> ELSE <<>>) \o Digits(v)

\* n copies of the character ch
Repeat(ch, n) == [i \in 1..n |-> ch]

---------------------------------------------------------------------------
(* scaled_integer<T>::to_string(char* buf, size_t size),                   *)
(* src/include/types.hpp.  Every operator returns the set of outcomes the  *)
(* call can have: [threw, buf, off, len, oob, absv], the view returned     *)
(* being the len characters at offset off of buf.                          *)

\* mutant: the first byte of the buffer is refused too
check_range_off(p) == ~(p =< 0)
\* auto check_range = [&buf](char* end) { if (end < buf) throw ...; }
\* TRUE when the pointer at offset p passes
check_range(p) == ~(p < 0)

\* T val = std::abs(_value): the values val can hold afterwards.  For a
\* 16 bit T the absolute value is computed in int and converted back to T;
\* for the minimum of a 32 bit T std::abs overflows, which is undefined:
\* the negation wraps around or saturates.  (The minimum of a 64 bit T is
\* not among the numbers of the model.)
StdAbs(T, value) ==
    IF value >= 0 THEN {value}
    ELSE IF T.size > 4 THEN {0 - value}
    ELSE IF value > numeric_limits_min(T) THEN {0 - value}
    ELSE IF T.size < 4 THEN {Convert(T, 0 - value)}
    ELSE {numeric_limits_min(T), numeric_limits_max(T)}

\* (val % 10) + '0'
DigitChar(val) == CRem(val, 10) + CharZero

\* *check_range(--it) = ch, on the walk state [buf, it, val, threw]
Put(st, ch) ==
    IF st.threw THEN st
    ELSE IF check_range(st.it - 1)
         THEN [st EXCEPT !.it = st.it - 1, !.buf[st.it] = ch]
         ELSE [st EXCEPT !.it = st.it - 1, !.threw = TRUE]

\* one round of a digit loop: write the last digit of val, then val /= 10
PutDigit(st) ==
    LET w == Put(st, DigitChar(st.val))
    IN  IF w.threw THEN w ELSE [w EXCEPT !.val = CDiv(st.val, 10)]

\* for (auto x = _scale; x < 0; ++x, val /= 10) *check_range(--it) = ...
RECURSIVE ScaledDigits(_, _)
ScaledDigits(st, x) ==
    IF st.threw \/ ~(x < 0) THEN st ELSE ScaledDigits(PutDigit(st), x + 1)

\* for (; val; val /= 10) *check_range(--it) = ...
RECURSIVE RestDigits(_)
RestDigits(st) ==
    IF st.threw \/ st.val = 0 THEN st ELSE RestDigits(PutDigit(st))

\* if (*it == '.') *check_range(--it) = '0';
LeadingZero(st) ==
    IF st.threw THEN st
    ELSE IF st.buf[st.it + 1] = CharDot THEN Put(st, CharZero) ELSE st

\* if (_value < 0) *check_range(--it) = '-';
Sign(st, value) ==
    IF st.threw THEN st
    ELSE IF value < 0 THEN Put(st, CharMinus) ELSE st

\* the branch if (_scale < 0) { ... return { it, size_t(end - it) }; }
NegativeScale(T, value, scale, b, size) ==
    { LET s0 == [buf |-> b, it |-> size, val |-> a, threw |-> FALSE]
          s1 == ScaledDigits(s0, scale)
          s2 == Put(s1, CharDot)
          s3 == RestDigits(s2)
          s4 == LeadingZero(s3)
          s5 == Sign(s4, value)
      IN  [threw |-> s5.threw, buf |-> s5.buf,
           off |-> IF s5.threw THEN 0 ELSE s5.it,
           len |-> IF s5.threw THEN 0 ELSE size - s5.it,
           oob |-> FALSE, absv |-> a]
      : a \in StdAbs(T, value) }

\* std::to_chars(buf + first, buf + last, value): the set of results
\* [ok, ptr, buf, oob].  When the text does not fit the result is
\* errc::value_too_large and the bytes are unspecified: libstdc++ and
\* libc++ have then already stored the '-' of a negative value at first
\* (whenever first /= last, so also for last < first, where the store can
\* land behind a buffer of size 0); other libraries store nothing.
to_chars(b, first, last, value) ==
    LET txt == DecimalChars(value)
        n   == Len(txt)
    IN  IF last - first >= n
        THEN {[ok |-> TRUE, ptr |-> first + n, oob |-> FALSE,
               buf |-> [i \in 1..Len(b) |->
                          IF first < i /\ i =< first + n
                          THEN txt[i - first] ELSE b[i]]]}
        ELSE {[ok |-> FALSE, ptr |-> last, oob |-> FALSE, buf |-> b]}
             \cup
             (IF value < 0 /\ first /= last
              THEN {[ok |-> FALSE, ptr |-> last, oob |-> ~(first < Len(b)),
                     buf |-> [i \in 1..Len(b) |->
                                IF i = first + 1 THEN CharMinus ELSE b[i]]]}
              ELSE {})

\* for (auto x = 0; x < _scale; ++x, ++it) *it = '0';
AppendZeros(b, it, scale) ==
    [i \in 1..Len(b) |-> IF it < i /\ i =< it + scale THEN CharZero ELSE b[i]]

\* else if (_scale) end -= _scale; std::to_chars(buf, end, _value); ...
NonNegativeScale(value, scale, b, size) ==
    { IF r.ok
      THEN [threw |-> FALSE, buf |-> AppendZeros(r.buf, r.ptr, scale),
            off |-> 0, len |-> r.ptr + scale, oob |-> FALSE, absv |-> 0]
      ELSE [threw |-> TRUE, buf |-> r.buf,
            off |-> 0, len |-> 0, oob |-> r.oob, absv |-> 0]
      : r \in to_chars(b, 0, size - scale, value) }

\* if (_value == 0) { check_range(end - 1); *buf = '0'; return { buf, 1 }; }
ZeroValue(b, size) ==
    IF check_range(size - 1)
    THEN {[threw |-> FALSE, buf |-> [b EXCEPT ![1] = CharZero],
           off |-> 0, len |-> 1, oob |-> FALSE, absv |-> 0]}
    ELSE {[threw |-> TRUE, buf |-> b,
           off |-> 0, len |-> 0, oob |-> FALSE, absv |-> 0]}

\* mutant: the special case for a zero value is missing
to_string_no_zero_case(T, value, scale, b, size) ==
    IF scale < 0 THEN NegativeScale(T, value, scale, b, size)
    ELSE NonNegativeScale(value, scale, b, size)
\* std::string_view scaled_integer<T>::to_string(char* buf, size_t size)
to_string(T, value, scale, b, size) ==
    IF value = 0 THEN ZeroValue(b, size)
    ELSE IF scale < 0 THEN NegativeScale(T, value, scale, b, size)
    ELSE NonNegativeScale(value, scale, b, size)

\* the characters of the returned string_view
ViewText(r) == IF r.threw THEN <<>> ELSE SubSeq(r.buf, r.off + 1, r.off + r.len)

\* char buf[64] of the owning to_string()
OwnBufSize == 64

\* std::string to_string() const { char buf[64]; return std::string(
\* to_string(buf, sizeof(buf))); }: the set of outcomes [threw, text, absv]
to_string_owning(T, value, scale, fill) ==
    { [threw |-> r.threw, text |-> ViewText(r), absv |-> r.absv]
      : r \in to_string(T, value, scale, Repeat(fill, OwnBufSize), OwnBufSize) }

---------------------------------------------------------------------------
(* scaled_integer<T>::to_string(char* buf, size_t buf_size) of the         *)
(* generated single header, src/single/firebird.hpp.                       *)

\* the text the snprintf calls format (int64_t val = _value)
FormatSingle(value, scale) ==
    IF value = 0 THEN <<CharZero>>
    ELSE IF scale < 0
    THEN LET p    == 10^(0 - scale)
             q    == CDiv(value, p)
             quot == IF q < 0 THEN 0 - q ELSE q
             rem  == Digits(CRem(value, p))
         IN  (IF value < 0 THEN <<CharMinus>> ELSE <<>>)
             \o DecimalChars(quot) \o <<CharDot>>
             \o Repeat(CharZero, (0 - scale) - Len(rem)) \o rem
    ELSE DecimalChars(value) \o Repeat(CharZero, scale)

\* std::snprintf(buf, buf_size, ...): at most buf_size - 1 characters of
\* the text and a terminating NUL are stored
snprintf(b, size, txt) ==
    LET k == IF Len(txt) < size - 1 THEN Len(txt) ELSE size - 1
    IN  [i \in 1..Len(b) |->
           IF i =< k THEN txt[i] ELSE IF i = k + 1 THEN 0 ELSE b[i]]

\* if (cnt < buf_size) return { buf, size_t(cnt) }; throw "too small buffer"
to_string_single(value, scale, b, size) ==
    LET txt == FormatSingle(value, scale)
        cnt == Len(txt)
    IN  IF cnt < size
        THEN [threw |-> FALSE, buf |-> snprintf(b, size, txt),
              off |-> 0, len |-> cnt, oob |-> FALSE, absv |-> 0]
        ELSE [threw |-> TRUE, buf |-> snprintf(b, size, txt),
              off |-> 0, len |-> 0, oob |-> FALSE, absv |-> 0]

---------------------------------------------------------------------------
(* The inputs. *)

\* the values around the limits of U and around the limits divided by the
\* powers of ten the scaling loop compares with
Boundary(U) ==
    LET mx == numeric_limits_max(U)
        mn == numeric_limits_min(U)
    IN  {mx, mx - 1, mn, mn + 1}
        \cup { CDiv(mx, 10^k) + d : k \in 1..MaxScale, d \in {0, 1} }
        \cup { CDiv(mn, 10^k) - d : k \in 1..MaxScale, d \in {0, 1} }

\* the mantissas the test suite uses (src/tests/test_scaled_integer.cpp)
TestValues == {42, 0 - 42, 123, 1579, 12345, 0 - 12345}

\* the mantissas of a scaled_integer<T>
Mantissas(T) ==
    { v \in ((0 - MaxMantissa)..MaxMantissa) \cup TestValues
            \cup UNION { Boundary(U) : U \in TargetTypes } :
        numeric_limits_min(T) =< v /\ v =< numeric_limits_max(T) }

\* short _scale
Scales == (0 - MaxScale)..MaxScale

\* the bytes a caller's buffer holds before the call ('#')
InitBytes == {35}

NoCall == [op |-> "none"]
NoRet  == [threw |-> FALSE]
\* the value of a variable the machine at hand does not use
NoObject == <<>>

---------------------------------------------------------------------------
(* The state machine: an object is constructed, its const member           *)
(* functions are called, the caller drops the result and calls again.      *)

\* explicit scaled_integer(T value, short scale = 0) noexcept
Init ==
    /\ ctx = NoObject
    /\ dpb = NoObject
    /\ si \in { [T |-> T, _value |-> v, _scale |-> s] :
                T \in StorageTypes, v \in UNION { Mantissas(T) : T \in StorageTypes }, s \in Scales }
    /\ numeric_limits_min(si.T) =< si._value
    /\ si._value =< numeric_limits_max(si.T)
    /\ call = NoCall
    /\ buf0 = <<>>
    /\ buf = <<>>
    /\ ret = NoRet
    /\ ts = NoObject
    /\ xv = NoObject
    /\ da = NoObject

\* si.get<U>()
Get(U) ==
    /\ call.op = "none"
    /\ call' = [op |-> "get", U |-> U]
    /\ ret' = get(si.T, U, si._value, si._scale)
    /\ UNCHANGED <<ctx, dpb, si, buf0, buf, ts, xv, da>>

\* si.to_string(buf, size) of src/include/types.hpp
ToStringBuf(size, fill) ==
    /\ call.op = "none"
    /\ call' = [op |-> "to_string_buf", size |-> size]
    /\ buf0' = Repeat(fill, size)
    /\ \E r \in to_string(si.T, si._value, si._scale, Repeat(fill, size), size) :
          /\ buf' = r.buf
          /\ ret' = [threw |-> r.threw, off |-> r.off, len |-> r.len,
                     text |-> ViewText(r), oob |-> r.oob, absv |-> r.absv]
    /\ UNCHANGED <<ctx, dpb, si, ts, xv, da>>

\* si.to_string()
ToStringOwning(fill) ==
    /\ call.op = "none"
    /\ call' = [op |-> "to_string"]
    /\ \E r \in to_string_owning(si.T, si._value, si._scale, fill) : ret' = r
    /\ UNCHANGED <<ctx, dpb, si, buf0, buf, ts, xv, da>>

\* si.to_string(buf, size) of src/single/firebird.hpp
ToStringSingle(size, fill) ==
    /\ call.op = "none"
    /\ call' = [op |-> "to_string_single", size |-> size]
    /\ buf0' = Repeat(fill, size)
    /\ LET r == to_string_single(si._value, si._scale, Repeat(fill, size), size)
       IN  /\ buf' = r.buf
           /\ ret' = [threw |-> r.threw, off |-> r.off, len |-> r.len,
                      text |-> ViewText(r), oob |-> r.oob, absv |-> r.absv]
    /\ UNCHANGED <<ctx, dpb, si, ts, xv, da>>

\* the caller is done with the result; the object is unchanged (every
\* member function modelled is const)
Release ==
    /\ call.op /= "none"
    /\ call' = NoCall
    /\ buf0' = <<>>
    /\ buf' = <<>>
    /\ ret' = NoRet
    /\ UNCHANGED <<ctx, dpb, si, ts, xv, da>>

Next ==
    \/ \E U \in TargetTypes : Get(U)
    \/ \E size \in 0..MaxSize, fill \in InitBytes : ToStringBuf(size, fill)
    \/ \E fill \in InitBytes : ToStringOwning(fill)
    \/ \E size \in 0..MaxSize, fill \in InitBytes : ToStringSingle(size, fill)
    \/ Release

Spec == Init /\ [][Next]_vars

---------------------------------------------------------------------------
(* The owning to_string() over the whole range of short _scale.            *)

\* short _scale for the owning to_string(): the ends of the 16 bit range
\* and the scales whose text has about the length of char buf[64]
WideScales ==
    {numeric_limits_min(int16_t), numeric_limits_max(int16_t)}
    \cup Scales
    \cup { s \in (0 - (OwnBufSize + MaxScale))..(OwnBufSize + MaxScale) :
             s >= OwnBufSize - 12 \/ s =< 12 - OwnBufSize }

\* explicit scaled_integer(T value, short scale = 0) noexcept
InitOwning ==
    /\ ctx = NoObject
    /\ dpb = NoObject
    /\ si \in { [T |-> T, _value |-> v, _scale |-> s] :
                T \in StorageTypes, v \in UNION { Mantissas(T) : T \in StorageTypes },
                s \in WideScales }
    /\ numeric_limits_min(si.T) =< si._value
    /\ si._value =< numeric_limits_max(si.T)
    /\ call = NoCall
    /\ buf0 = <<>>
    /\ buf = <<>>
    /\ ret = NoRet
    /\ ts = NoObject
    /\ xv = NoObject
    /\ da = NoObject

NextOwning ==
    \/ \E fill \in InitBytes : ToStringOwning(fill)
    \/ Release

SpecOwning == InitOwning /\ [][NextOwning]_vars

---------------------------------------------------------------------------
(* fb::timestamp_t (src/include/types.hpp): ISC_TIMESTAMP with             *)
(* ISC_DATE timestamp_date, the days since 1858-11-17 in a 32 bit int, and *)
(* ISC_TIME timestamp_time, the time of day in units of 1/10000 second in  *)
(* a 32 bit unsigned.  time_t has 64 bits; the model draws its values from *)
(* 0 .. 2^31 - 1, the numbers TLC computes with.                           *)

\* 40587 is GDS epoch start in days (since 1858-11-17, time_t starts at 1970)
GdsEpoch == 40587
\* the seconds of a day, the divisor of from_time_t and factor of to_time_t
SecondsPerDay == 86400
\* the units of timestamp_time in one second
TimeUnits == 10000
\* 2024-06-07 22:06:10 UTC as time_t, as ISC_DATE and as ISC_TIME
TestTime == 1717797970
TestDate == 60468
TestTimeOfDay == 795700000
\* seconds 0 .. MaxSeconds of a day are enumerated besides its last ones
MaxSeconds == 2

\* std::numeric_limits<int>::max()
INT_MAX == numeric_limits_max(int32_t)

\* mutant: the days are not moved to the GDS epoch
from_time_t_no_epoch(t) ==
    [timestamp_date |-> CDiv(t, SecondsPerDay),
     timestamp_time |-> CRem(t, SecondsPerDay) * TimeUnits]
\* static timestamp_t from_time_t(time_t t): ret.timestamp_date =
\* t / 86400 + 40587; ret.timestamp_time = (t % 86400) * 10'000;
from_time_t(t) ==
    [timestamp_date |-> CDiv(t, SecondsPerDay) + GdsEpoch,
     timestamp_time |-> CRem(t, SecondsPerDay) * TimeUnits]

\* std::max(int(timestamp_date) - 40587, 0)
DaysSince1970(t) ==
    IF t.timestamp_date - GdsEpoch > 0 THEN t.timestamp_date - GdsEpoch ELSE 0

\* the time_t values converted: the first and last seconds of the first
\* days after 1970, of the day of the test and of the last day a 32 bit
\* time_t reaches
TimeValues ==
    { q[1] * SecondsPerDay + q[2] :
        q \in { p \in {0, 1, TestDate - GdsEpoch, INT_MAX \div SecondsPerDay}
                     \X ((0..MaxSeconds)
                         \cup {TestTimeOfDay \div TimeUnits}
                         \cup ((SecondsPerDay - 1 - MaxSeconds)..(SecondsPerDay - 1))) :
                   p[2] =< INT_MAX - p[1] * SecondsPerDay } }
    \cup {TestTime, INT_MAX - 1, INT_MAX}

\* time_t to_time_t() const: std::max(int(timestamp_date) - 40587, 0) * 86400
\* + timestamp_time / 10'000, the set of outcomes [val, overflow].  The
\* product is computed in int and overflows when the days exceed
\* INT_MAX / 86400, which is undefined: any value may come out.  The sum is
\* computed in unsigned.
to_time_t(t) ==
    LET days == DaysSince1970(t)
    IN  IF days > INT_MAX \div SecondsPerDay
        THEN { [val |-> v, overflow |-> TRUE] : v \in TimeValues }
        ELSE { [val |-> days * SecondsPerDay + t.timestamp_time \div TimeUnits,
                overflow |-> FALSE] }

\* the timestamps constructed directly, timest{ date, time } of the tests:
\* days before, at and after 1970-01-01 with several times of day
LiteralTimestamps ==
    { [timestamp_date |-> d, timestamp_time |-> tm] :
        d \in {0, 1, GdsEpoch - 1, GdsEpoch, GdsEpoch + 1, TestDate},
        tm \in {0, 1, TimeUnits - 1, TimeUnits, TestTimeOfDay,
                SecondsPerDay * TimeUnits - 1} }

\* timest{ date, time }
InitTime ==
    /\ ctx = NoObject
    /\ dpb = NoObject
    /\ ts \in LiteralTimestamps
    /\ call = NoCall
    /\ ret = NoRet
    /\ si = NoObject
    /\ buf0 = <<>>
    /\ buf = <<>>
    /\ xv = NoObject
    /\ da = NoObject

\* ts = timestamp_t::from_time_t(t)
FromTimeT(t) ==
    /\ call.op = "none"
    /\ call' = [op |-> "from_time_t", t |-> t]
    /\ ts' = from_time_t(t)
    /\ ret' = [threw |-> FALSE, val |-> from_time_t(t)]
    /\ UNCHANGED <<ctx, dpb, si, buf0, buf, xv, da>>

\* ts.to_time_t(), on an object or on the result of from_time_t(t) (from
\* is then t, and -1 otherwise)
ToTimeT ==
    /\ call.op \in {"none", "from_time_t"}
    /\ call' = [op |-> "to_time_t",
                from |-> IF call.op = "from_time_t" THEN call.t ELSE 0 - 1]
    /\ \E r \in to_time_t(ts) :
          ret' = [threw |-> FALSE, val |-> r.val, overflow |-> r.overflow]
    /\ UNCHANGED <<ctx, dpb, ts, si, buf0, buf, xv, da>>

\* the caller is done with the result
ReleaseTime ==
    /\ call.op /= "none"
    /\ call' = NoCall
    /\ ret' = NoRet
    /\ UNCHANGED <<ctx, dpb, ts, si, buf0, buf, xv, da>>

NextTime ==
    \/ \E t \in TimeValues : FromTimeT(t)
    \/ ToTimeT
    \/ ReleaseTime

SpecTime == InitTime /\ [][NextTime]_vars

---------------------------------------------------------------------------
(* fb::sqlvar, the view of one XSQLVAR (src/include/sqlvar.hpp).           *)
(*                                                                         *)
(* xv is the XSQLVAR: sqltype (the SQL type tag, its bit 0 the nullable    *)
(* flag), sqlscale, sqllen, sqldata and sqlind.  sqldata is the object the *)
(* pointer points to, a record with one field named after the type of the  *)
(* object: *reinterpret_cast<int16_t*>(data) is data.int16_t.  In every    *)
(* state of the model the object is of the type the tag stands for (the    *)
(* server stores it so, and set(val) stores pointer and tag together).     *)
(* sqlind is the short the indicator pointer points to.                    *)
(* A float or double is the decimal number it is written as,               *)
(* [neg, digits, exp]: the digits of its magnitude, without zeros at       *)
(* either end, times 10^exp.                                               *)

\* the SQL type tags of ibase.h
SQL_VARYING == 448
SQL_TEXT == 452
SQL_DOUBLE == 480
SQL_FLOAT == 482
SQL_LONG == 496
SQL_SHORT == 500
SQL_TIMESTAMP == 510
SQL_BLOB == 520
SQL_D_FLOAT == 530
SQL_ARRAY == 540
SQL_QUAD == 550
SQL_TYPE_TIME == 560
SQL_TYPE_DATE == 570
SQL_INT64 == 580
SQL_BOOLEAN == 32764
SQL_NULL == 32766

\* the types a value is asked as, besides the integer types above
int64_t       == [name |-> "int64_t", size |-> 8, signed |-> TRUE]
float_t       == [name |-> "float",   size |-> 4, signed |-> TRUE]
double_t      == [name |-> "double",  size |-> 8, signed |-> TRUE]
string_t      == [name |-> "std::string"]
string_view_t == [name |-> "std::string_view"]
timestamp_t  == [name |-> "timestamp_t"]
blob_id_t     == [name |-> "blob_id_t"]
nullptr_t     == [name |-> "std::nullptr_t"]
\* scaled_integer<U>
scaled_integer(U) == [name |-> "scaled_integer", T |-> U]

FloatingTypes == {float_t, double_t}
\* std::is_arithmetic_v<T>, for the types of the model
is_arithmetic(T) == T \in TargetTypes \cup FloatingTypes

\* the alternatives of field_t but std::nullptr_t
FieldTypes ==
    {string_view_t, scaled_integer(int16_t), scaled_integer(int32_t),
     scaled_integer(int64_t), float_t, double_t, timestamp_t, blob_id_t}

\* the template argument T of value<T>() and value_or<T>()
ValueTypes == TargetTypes \cup FieldTypes \cup {string_t}

\* type_name<T>(): the name the compiler prints
type_name(T) ==
    IF T.name = "scaled_integer"
    THEN "scaled_integer<" \o T.T.name \o ">"
    ELSE T.name

\* a variant holding val as its alternative alt
Field(alt, val) == [alt |-> alt, val |-> val]
\* field_t(std::in_place_type<std::nullptr_t>, nullptr)
NullField == Field(nullptr_t, 0)

\* a decimal number without zeros at either end of its digits
RECURSIVE Normal(_)
Normal(f) ==
    IF f.digits = <<>> THEN [f EXCEPT !.exp = 0]
    ELSE IF Head(f.digits) = CharZero
         THEN Normal([f EXCEPT !.digits = Tail(f.digits)])
    ELSE IF f.digits[Len(f.digits)] = CharZero
         THEN Normal([f EXCEPT !.digits = SubSeq(f.digits, 1, Len(f.digits) - 1),
                               !.exp = f.exp + 1])
    ELSE f

\* the float or double with the value of the integer v times 10^e
Float(v, e) == Normal([neg |-> v < 0, digits |-> Digits(v), exp |-> e])

\* what an fb::exception says: the text it is built from and the type
\* names streamed into it
What(msg, types) == [msg |-> msg, types |-> types]
\* a call that returned val, and one that threw
Returned(val) == [threw |-> FALSE, val |-> val]
Threw(what) == [threw |-> TRUE, what |-> what]

\* '0' <= c <= '9'
IsDigit(c) == CharZero =< c /\ c =< CharZero + 9

\* the offset of the first character at or after offset i that is no digit
RECURSIVE DigitRun(_, _)
DigitRun(chars, i) ==
    IF i < Len(chars) /\ IsDigit(chars[i + 1]) THEN DigitRun(chars, i + 1) ELSE i

\* the digits at offsets i .. last - 1 added to acc, which is negative for
\* a negative number: [over, val]
RECURSIVE ParseDigits(_, _, _, _, _, _)
ParseDigits(T, neg, chars, i, last, acc) ==
    IF i = last THEN [over |-> FALSE, val |-> acc]
    ELSE LET d == chars[i + 1] - CharZero
         IN  IF neg
             THEN IF acc < CDiv(numeric_limits_min(T) + d, 10)
                  THEN [over |-> TRUE, val |-> 0]
                  ELSE ParseDigits(T, neg, chars, i + 1, last, acc * 10 - d)
             ELSE IF acc > (numeric_limits_max(T) - d) \div 10
                  THEN [over |-> TRUE, val |-> 0]
                  ELSE ParseDigits(T, neg, chars, i + 1, last, acc * 10 + d)

\* std::from_chars(first, last, value) for an integer type T, base 10: a
\* '-' (signed T only) and the longest run of digits.  [ec, ptr, val]
from_chars_integer(T, chars) ==
    LET neg   == T.signed /\ Len(chars) > 0 /\ chars[1] = CharMinus
        start == IF neg THEN 1 ELSE 0
        stop  == DigitRun(chars, start)
        r     == ParseDigits(T, neg, chars, start, stop, 0)
    IN  IF stop = start
        THEN [ec |-> "Invalid argument", ptr |-> 0, val |-> 0]
        ELSE IF r.over
        THEN [ec |-> "Numerical result out of range", ptr |-> stop, val |-> 0]
        ELSE [ec |-> "", ptr |-> stop, val |-> r.val]

\* std::from_chars(first, last, value) for float and double, in the
\* general format, on text without exponent, "inf" or "nan": a '-', digits,
\* a '.' and digits, with at least one digit.  [ec, ptr, val]
from_chars_floating(chars) ==
    LET neg    == Len(chars) > 0 /\ chars[1] = CharMinus
        start  == IF neg THEN 1 ELSE 0
        dot    == DigitRun(chars, start)
        hasdot == dot < Len(chars) /\ chars[dot + 1] = CharDot
        stop   == IF hasdot THEN DigitRun(chars, dot + 1) ELSE dot
        whole  == SubSeq(chars, start + 1, dot)
        frac   == IF hasdot THEN SubSeq(chars, dot + 2, stop) ELSE <<>>
    IN  IF whole \o frac = <<>>
        THEN [ec |-> "Invalid argument", ptr |-> 0, val |-> 0]
        ELSE [ec |-> "", ptr |-> stop,
              val |-> Normal([neg |-> neg, digits |-> whole \o frac,
                              exp |-> 0 - Len(frac)])]

\* std::from_chars(val.begin(), val.end(), ret)
from_chars(T, chars) ==
    IF T \in FloatingTypes THEN from_chars_floating(chars)
    ELSE from_chars_integer(T, chars)

\* type_converter<T>::operator()(std::string_view val) for arithmetic T:
\* T ret{}; auto [ptr, ec] = std::from_chars(...); if (ec == std::errc())
\* return ret; throw fb::exception("can't convert string \"") << val ...
StringToArithmetic(T, chars) ==
    LET r == from_chars(T, chars)
    IN  IF r.ec = "" THEN Returned(r.val)
        ELSE Threw(What("can't convert string (" \o r.ec \o ")", <<type_name(T)>>))

\* scaled_integer<T>::get<U>() for float and double U.  umin is
\* std::numeric_limits<U>::min() / 10, a tenth of the smallest positive
\* normal number, so the check val < umin of the scaling loop
\* (_scale > 0) rejects zero and every negative value; umax is beyond the
\* integers of the model.
get_floating(T, U, value, scale) ==
    IF Narrowing(T, U) THEN [threw |-> TRUE, val |-> 0]
    ELSE IF scale > 0 /\ value =< 0 THEN [threw |-> TRUE, val |-> 0]
    ELSE [threw |-> FALSE, val |-> Float(value, scale)]

\* type_converter<T>::operator()(scaled_integer<U> val) for arithmetic T:
\* return val.template get<T>(); error<U>() names both types
ScaledToArithmetic(T, s) ==
    LET r == IF T \in FloatingTypes
             THEN get_floating(s.T, T, s._value, s._scale)
             ELSE get(s.T, T, s._value, s._scale)
    IN  IF r.threw
        THEN Threw(What("scaled_integer of type and scale do not fit into type",
                        <<type_name(s.T), type_name(T)>>))
        ELSE Returned(r.val)

\* std::to_string(val) for a float or double: "%f", six digits after the
\* point (exact for a number with at most six decimals)
to_string_floating(f) ==
    LET k     == 0 - f.exp
        n     == Len(f.digits)
        whole == IF f.exp >= 0 THEN f.digits \o Repeat(CharZero, f.exp)
                 ELSE IF n > k THEN SubSeq(f.digits, 1, n - k) ELSE <<>>
        frac  == IF f.exp >= 0 THEN <<>>
                 ELSE IF n > k THEN SubSeq(f.digits, n - k + 1, n)
                 ELSE Repeat(CharZero, k - n) \o f.digits
    IN  (IF f.neg THEN <<CharMinus>> ELSE <<>>)
        \o (IF whole = <<>> THEN <<CharZero>> ELSE whole)
        \o <<CharDot>> \o frac \o Repeat(CharZero, 6 - Len(frac))

\* the lambda [](...) -> T { throw fb::exception("can't convert to type ")
\* << type_name<T>(); } of sqlvar::visit
CantConvert(T) == Threw(What("can't convert to type", <<type_name(T)>>))

\* type_converter<std::string>: std::string(val) for a string_view,
\* std::to_string(val) for a float or double, val.to_string() for a
\* scaled_integer
ConvertToString(v) ==
    IF v.alt = string_view_t THEN {Returned(v.val)}
    ELSE IF v.alt \in FloatingTypes THEN {Returned(to_string_floating(v.val))}
    ELSE IF v.alt.name = "scaled_integer"
    THEN { IF r.threw
           THEN Threw(What(IF v.val._value = 0 \/ v.val._scale < 0
                           THEN "too small buffer"
                           ELSE "Value too large for defined data type", <<>>))
           ELSE Returned(r.text)
           : r \in UNION { to_string_owning(v.val.T, v.val._value, v.val._scale, fill)
                         : fill \in InitBytes } }
    ELSE {CantConvert(string_t)}

\* type_converter<T> for arithmetic T: a scaled_integer and a string_view
\* are converted, every other alternative falls to the lambda
ConvertToArithmetic(T, v) ==
    IF v.alt.name = "scaled_integer" THEN {ScaledToArithmetic(T, v.val)}
    ELSE IF v.alt = string_view_t THEN {StringToArithmetic(T, v.val)}
    ELSE {CantConvert(T)}

\* the primary type_converter<T>: T operator()(T val) { return val; },
\* chosen for the alternative T itself (no other alternative converts to
\* T implicitly)
ConvertToSame(T, v) ==
    IF v.alt = T THEN {Returned(v.val)} ELSE {CantConvert(T)}

\* mutant: an alternative without conversion yields a value-initialised T
visit_default(T, v) ==
    { IF r.threw /\ r.what.msg = "can't convert to type" THEN Returned(0) ELSE r
      : r \in IF is_arithmetic(T) THEN ConvertToArithmetic(T, v)
              ELSE IF T = string_t THEN ConvertToString(v)
              ELSE ConvertToSame(T, v) }
\* sqlvar::visit<T>() on the variant v: std::visit(overloaded {
\* type_converter<T>{}, [](...) -> T { throw ... } }, as_variant())
visit(T, v) ==
    IF is_arithmetic(T) THEN ConvertToArithmetic(T, v)
    ELSE IF T = string_t THEN ConvertToString(v)
    ELSE ConvertToSame(T, v)

\* bool is_null(): (_ptr->sqltype & 1) && (*_ptr->sqlind < 0)
is_null(x) == x.sqltype % 2 = 1 /\ x.sqlind < 0

\* operator bool(): !is_null()
operator_bool(x) == ~is_null(x)

\* uint16_t sql_datatype(): _ptr->sqltype & ~1
sql_datatype(x) == x.sqltype - (x.sqltype % 2)

\* the values an uninitialised 32 bit member may show
Indeterminate == {0, 1, INT_MAX}

\* mutant: the column size is taken for the length of the text
VaryingViewSqllen(x) == SubSeq(x.sqldata.PARAMVARY.vary_string, 1, x.sqllen)
\* the string_view of the case SQL_VARYING: pv->vary_string, pv->vary_length
VaryingView(x) ==
    SubSeq(x.sqldata.PARAMVARY.vary_string, 1, x.sqldata.PARAMVARY.vary_length)

\* field_t sqlvar::as_variant() const: the set of outcomes, a field_t
\* returned or an exception
as_variant(x) ==
    IF is_null(x) THEN {Returned(NullField)}
    ELSE LET dtype == sql_datatype(x)
             data  == x.sqldata
             Scaled(T, value) ==
                 Field(scaled_integer(T),
                       [T |-> T, _value |-> value, _scale |-> x.sqlscale])
         IN  CASE dtype = SQL_TEXT ->
                    {Returned(Field(string_view_t, SubSeq(data.chars, 1, x.sqllen)))}
               [] dtype = SQL_VARYING ->
                    {Returned(Field(string_view_t, VaryingView(x)))}
               [] dtype = SQL_SHORT -> {Returned(Scaled(int16_t, data.int16_t))}
               [] dtype = SQL_LONG -> {Returned(Scaled(int32_t, data.int32_t))}
               [] dtype = SQL_INT64 -> {Returned(Scaled(int64_t, data.int64_t))}
               [] dtype = SQL_FLOAT -> {Returned(Field(float_t, data.float))}
               [] dtype = SQL_DOUBLE -> {Returned(Field(double_t, data.double))}
               [] dtype = SQL_TIMESTAMP ->
                    {Returned(Field(timestamp_t, data.timestamp_t))}
               [] dtype = SQL_TYPE_DATE ->
                    { Returned(Field(timestamp_t,
                          [timestamp_date |-> data.ISC_DATE, timestamp_time |-> u]))
                      : u \in Indeterminate }
               [] dtype = SQL_TYPE_TIME ->
                    { Returned(Field(timestamp_t,
                          [timestamp_date |-> u, timestamp_time |-> data.ISC_TIME]))
                      : u \in Indeterminate }
               [] dtype \in {SQL_BLOB, SQL_ARRAY} ->
                    {Returned(Field(blob_id_t, data.ISC_QUAD))}
               [] OTHER -> {Threw(What("type not implemented", <<>>))}

\* the conversion of what as_variant() returned, or its exception
Visited(x, T) ==
    UNION { IF f.threw THEN {f} ELSE visit(T, f.val) : f \in as_variant(x) }

\* T value() const: if (is_null()) throw fb::exception("type is null");
\* return visit<T>();
value(x, T) ==
    IF is_null(x) THEN {Threw(What("type is null", <<>>))} ELSE Visited(x, T)

\* mutant: the default is returned for a column that is not null
value_or_negated(x, T, default_value) ==
    IF ~is_null(x) THEN {Returned(default_value)} ELSE Visited(x, T)
\* T value_or(T default_value) const: if (is_null()) return
\* std::move(default_value); return visit<T>();
value_or(x, T, default_value) ==
    IF is_null(x) THEN {Returned(default_value)} ELSE Visited(x, T)

\* void set(int stype, const void* sdata, size_t slen) noexcept; sqltype
\* and sqllen are ISC_SHORT
set_generic(x, stype, sdata, slen) ==
    [x EXCEPT !.sqltype = Convert(int16_t, stype),
              !.sqldata = sdata,
              !.sqllen = Convert(int16_t, slen)]

\* void set(std::nullptr_t) noexcept { _ptr->sqltype = SQL_NULL; }
set_null(x) == [x EXCEPT !.sqltype = SQL_NULL]

\* fb::skip
skip_t == [name |-> "skip_t"]

\* the overloads of sqlvar::set(val), chosen by the type of the argument
\* arg = [T, v]
set(x, arg) ==
    CASE arg.T = skip_t -> x
      [] arg.T = float_t ->
            set_generic(x, SQL_FLOAT, [float |-> arg.v], float_t.size)
      [] arg.T = double_t ->
            set_generic(x, SQL_DOUBLE, [double |-> arg.v], double_t.size)
      [] arg.T = int16_t -> set_generic(x, SQL_SHORT, [int16_t |-> arg.v], 2)
      [] arg.T = int32_t -> set_generic(x, SQL_LONG, [int32_t |-> arg.v], 4)
      [] arg.T = int64_t -> set_generic(x, SQL_INT64, [int64_t |-> arg.v], 8)
      [] arg.T = string_view_t ->
            set_generic(x, SQL_TEXT, [chars |-> arg.v], Len(arg.v))
      [] arg.T = timestamp_t ->
            set_generic(x, SQL_TIMESTAMP, [timestamp_t |-> arg.v], 8)
      [] arg.T = blob_id_t -> set_generic(x, SQL_BLOB, [ISC_QUAD |-> arg.v], 8)
      [] arg.T = nullptr_t -> set_null(x)

\* ' ', '+' and 'a', the characters of the texts besides digits, '-', '.'
CharSpace == 32
CharPlus == 43
CharA == 97

\* the texts of the columns: numbers, numbers with something before or
\* after them, numbers at and beyond the limits of the integer types, and
\* texts that are no number
Texts ==
    LET n == DecimalChars(42)
    IN  {<<>>, n, n \o <<CharA>>, n \o <<CharSpace>>, <<CharSpace>> \o n,
         <<CharPlus>> \o n, DecimalChars(0 - 42), <<CharA>>, <<CharMinus>>,
         <<CharZero, CharZero>> \o DecimalChars(7),
         DecimalChars(4) \o <<CharDot>> \o DecimalChars(5),
         <<CharDot>> \o DecimalChars(5), <<CharDot>>,
         DecimalChars(INT_MAX), DecimalChars(INT_MAX) \o <<CharZero>>,
         DecimalChars(numeric_limits_min(int32_t))}
    \cup { DecimalChars(numeric_limits_max(U) + 1) : U \in TargetTypes \ {int32_t} }
    \cup { DecimalChars(numeric_limits_min(U) - 1) : U \in TargetTypes \ {int32_t} }

\* the floats and doubles of the columns: 0, 1.5, -0.25, 42
FloatValues == {Float(0, 0), Float(15, 0 - 1), Float(0 - 25, 0 - 2), Float(42, 0)}

\* the timestamps of the columns
TimestampValues ==
    {[timestamp_date |-> 0, timestamp_time |-> 0],
     [timestamp_date |-> TestDate, timestamp_time |-> TestTimeOfDay]}

\* the blob ids of the columns
BlobValues ==
    {[gds_quad_high |-> 0, gds_quad_low |-> 0], [gds_quad_high |-> 1, gds_quad_low |-> 2]}

\* the mantissas of the integer columns
ColumnValues(T) ==
    IF T = int64_t THEN {0, 5, 0 - 7}
    ELSE {0, 1, 0 - 1, 42, 0 - 42, 123, numeric_limits_min(T), numeric_limits_max(T)}

\* the bytes of a VARCHAR column behind its text: sqllen is the size of
\* the column, vary_length the length of the text in it
VaryingPad == {0, 2}

\* the object at sqldata and the sqllen of a column with the tag dtype,
\* as the server describes and fills it
ColumnData(dtype) ==
    CASE dtype = SQL_TEXT ->
            { [sqldata |-> [chars |-> t], sqllen |-> Len(t)] : t \in Texts }
      [] dtype = SQL_VARYING ->
            { [sqldata |-> [PARAMVARY |-> [vary_length |-> Len(t),
                                           vary_string |-> t \o Repeat(b, pad)]],
               sqllen |-> Len(t) + pad]
              : t \in Texts, pad \in VaryingPad, b \in InitBytes }
      [] dtype = SQL_SHORT ->
            { [sqldata |-> [int16_t |-> v], sqllen |-> 2] : v \in ColumnValues(int16_t) }
      [] dtype = SQL_LONG ->
            { [sqldata |-> [int32_t |-> v], sqllen |-> 4] : v \in ColumnValues(int32_t) }
      [] dtype = SQL_INT64 ->
            { [sqldata |-> [int64_t |-> v], sqllen |-> 8] : v \in ColumnValues(int64_t) }
      [] dtype = SQL_FLOAT ->
            { [sqldata |-> [float |-> v], sqllen |-> 4] : v \in FloatValues }
      [] dtype \in {SQL_DOUBLE, SQL_D_FLOAT} ->
            { [sqldata |-> [double |-> v], sqllen |-> 8] : v \in FloatValues }
      [] dtype = SQL_TIMESTAMP ->
            { [sqldata |-> [timestamp_t |-> v], sqllen |-> 8] : v \in TimestampValues }
      [] dtype = SQL_TYPE_DATE ->
            { [sqldata |-> [ISC_DATE |-> v.timestamp_date], sqllen |-> 4]
              : v \in TimestampValues }
      [] dtype = SQL_TYPE_TIME ->
            { [sqldata |-> [ISC_TIME |-> v.timestamp_time], sqllen |-> 4]
              : v \in TimestampValues }
      [] dtype \in {SQL_BLOB, SQL_ARRAY, SQL_QUAD} ->
            { [sqldata |-> [ISC_QUAD |-> v], sqllen |-> 8] : v \in BlobValues }
      [] dtype = SQL_BOOLEAN ->
            { [sqldata |-> [FB_BOOLEAN |-> v], sqllen |-> 1] : v \in {0, 1} }
      [] dtype = SQL_NULL ->
            { [sqldata |-> [none |-> 0], sqllen |-> 0] }

\* the tags a described column can have
ColumnTags ==
    {SQL_TEXT, SQL_VARYING, SQL_SHORT, SQL_LONG, SQL_INT64, SQL_FLOAT, SQL_DOUBLE,
     SQL_D_FLOAT, SQL_TIMESTAMP, SQL_TYPE_DATE, SQL_TYPE_TIME, SQL_BLOB, SQL_ARRAY,
     SQL_QUAD, SQL_BOOLEAN, SQL_NULL}

\* the tags whose value has a scale
ScaledTags == {SQL_SHORT, SQL_LONG, SQL_INT64}

\* the columns of a fetched row: any tag, with and without the nullable
\* flag, the indicator -1 (null) or 0, a scale for the integer types
Columns ==
    UNION { { [sqltype |-> dtype + flag, sqlscale |-> s, sqllen |-> d.sqllen,
               sqldata |-> d.sqldata, sqlind |-> ind]
              : flag \in {0, 1}, ind \in {0 - 1, 0},
                s \in IF dtype \in ScaledTags THEN Scales ELSE {0},
                d \in ColumnData(dtype) }
            : dtype \in ColumnTags }

\* the arguments of set(val), each [T, v]: its type and its value
SetArgs ==
    <<[T |-> skip_t, v |-> 0], [T |-> nullptr_t, v |-> 0],
      [T |-> int16_t, v |-> 123], [T |-> int32_t, v |-> 200], [T |-> int64_t, v |-> 5],
      [T |-> float_t, v |-> Float(15, 0 - 1)], [T |-> double_t, v |-> Float(0 - 25, 0 - 2)],
      [T |-> string_view_t, v |-> DecimalChars(180)],
      [T |-> string_view_t, v |-> <<CharA, CharA, CharA>>],
      [T |-> timestamp_t, v |-> [timestamp_date |-> TestDate, timestamp_time |-> TestTimeOfDay]],
      [T |-> blob_id_t, v |-> [gds_quad_high |-> 1, gds_quad_low |-> 2]]>>

\* the default_value of value_or<T>(default_value)
Default(T) ==
    IF T \in TargetTypes THEN 7
    ELSE IF T \in FloatingTypes THEN Float(7, 0)
    ELSE IF T \in {string_t, string_view_t} THEN <<CharA>>
    ELSE IF T = timestamp_t THEN [timestamp_date |-> 1, timestamp_time |-> 1]
    ELSE IF T = blob_id_t THEN [gds_quad_high |-> 7, gds_quad_low |-> 7]
    ELSE [T |-> T.T, _value |-> 7, _scale |-> 0]

\* a sqlvar over a column of a fetched row
InitVar ==
    /\ ctx = NoObject
    /\ dpb = NoObject
    /\ xv \in Columns
    /\ call = NoCall
    /\ ret = NoRet
    /\ si = NoObject
    /\ buf0 = <<>>
    /\ buf = <<>>
    /\ ts = NoObject
    /\ da = NoObject

\* xv.set(arg)
Set(arg) ==
    /\ call.op = "none"
    /\ call' = [op |-> "set", arg |-> arg]
    /\ xv' = set(xv, arg)
    /\ ret' = NoRet
    /\ UNCHANGED <<ctx, dpb, si, buf0, buf, ts, da>>

\* xv.is_null()
IsNull ==
    /\ call.op = "none"
    /\ call' = [op |-> "is_null"]
    /\ ret' = Returned(is_null(xv))
    /\ UNCHANGED <<ctx, dpb, xv, si, buf0, buf, ts, da>>

\* bool(xv)
Bool ==
    /\ call.op = "none"
    /\ call' = [op |-> "bool"]
    /\ ret' = Returned(operator_bool(xv))
    /\ UNCHANGED <<ctx, dpb, xv, si, buf0, buf, ts, da>>

\* xv.as_variant()
AsVariant ==
    /\ call.op = "none"
    /\ call' = [op |-> "as_variant"]
    /\ ret' \in as_variant(xv)
    /\ UNCHANGED <<ctx, dpb, xv, si, buf0, buf, ts, da>>

\* xv.value<T>(), also through operator T()
Value(T) ==
    /\ call.op = "none"
    /\ call' = [op |-> "value", T |-> T]
    /\ ret' \in value(xv, T)
    /\ UNCHANGED <<ctx, dpb, xv, si, buf0, buf, ts, da>>

\* xv.value_or<T>(default_value)
ValueOr(T, default_value) ==
    /\ call.op = "none"
    /\ call' = [op |-> "value_or", T |-> T, default_value |-> default_value]
    /\ ret' \in value_or(xv, T, default_value)
    /\ UNCHANGED <<ctx, dpb, xv, si, buf0, buf, ts, da>>

\* the caller is done with the result
ReleaseVar ==
    /\ call.op /= "none"
    /\ call' = NoCall
    /\ ret' = NoRet
    /\ UNCHANGED <<ctx, dpb, xv, si, buf0, buf, ts, da>>

NextVar ==
    \/ \E i \in DOMAIN SetArgs : Set(SetArgs[i])
    \/ IsNull
    \/ Bool
    \/ AsVariant
    \/ \E T \in ValueTypes : Value(T)
    \/ \E T \in ValueTypes : ValueOr(T, Default(T))
    \/ ReleaseVar

SpecVar == InitVar /\ [][NextVar]_vars

---------------------------------------------------------------------------
(* sqlda: the input parameters of a query.  da is the XSQLDA behind        *)
(* query::params(): sqld, the number of parameters the statement has, and  *)
(* sqlvar, their descriptors.                                              *)

\* the most parameters a statement has
MaxCols == 2

\* size_t size() const noexcept: _ptr ? _ptr->sqld : 0
sqlda_size(d) == d.sqld

\* mutant: the arguments are assigned without looking at their number
sqlda_set_unchecked(d, args) ==
    [ret |-> NoRet,
     da  |-> [d EXCEPT !.sqlvar =
                [i \in DOMAIN d.sqlvar |->
                    IF i =< Len(args) THEN set(d.sqlvar[i], args[i]) ELSE d.sqlvar[i]]]]
\* sqlda::set(const Args&... args), sizeof...(Args) > 0: if (size() != cnt)
\* throw ...; auto it = begin(); ((it->set(args), ++it), ...);  The
\* outcome and the XSQLDA afterwards.
sqlda_set(d, args) ==
    IF sqlda_size(d) /= Len(args)
    THEN [ret |-> Threw(What("set: wrong number of parameters",
                             <<sqlda_size(d), Len(args)>>)),
          da  |-> d]
    ELSE [ret |-> NoRet,
          da  |-> [d EXCEPT !.sqlvar =
                     [i \in DOMAIN d.sqlvar |-> set(d.sqlvar[i], args[i])]]]

\* the descriptors isc_dsql_describe_bind leaves for the parameters: a
\* nullable INTEGER and a VARCHAR, no value in them yet
ParamColumns ==
    { c \in Columns :
        /\ c.sqlind = 0
        /\ c.sqlscale = 0
        /\ \/ c.sqltype = SQL_LONG + 1 /\ c.sqldata.int32_t = 0
           \/ c.sqltype = SQL_VARYING /\ c.sqllen = 2
                /\ c.sqldata.PARAMVARY.vary_length = 0 }

\* the argument lists of set and execute, each a list of indices into
\* SetArgs: fb::skip, 200 and "180" in every order, one more than MaxCols
ArgLists ==
    UNION { [1..n -> {1, 4, 8}] : n \in 1..(MaxCols + 1) }

\* the arguments an argument list stands for
Args(idx) == [i \in DOMAIN idx |-> SetArgs[idx[i]]]

\* query::params() on first use: the statement is prepared and its
\* parameters are described
InitDa ==
    /\ ctx = NoObject
    /\ dpb = NoObject
    /\ da \in { [sqld |-> n, sqlvar |-> cols]
                : n \in 0..MaxCols, cols \in UNION { [1..k -> ParamColumns] : k \in 0..MaxCols } }
    /\ Len(da.sqlvar) = da.sqld
    /\ call = NoCall
    /\ ret = NoRet
    /\ si = NoObject
    /\ buf0 = <<>>
    /\ buf = <<>>
    /\ ts = NoObject
    /\ xv = NoObject

\* auto p = query.params(); p[i] = val;
ParamAssign(i, arg) ==
    /\ i \in 1..sqlda_size(da)
    /\ call' = [op |-> "assign", i |-> i, arg |-> arg]
    /\ da' = [da EXCEPT !.sqlvar[i] = set(@, arg)]
    /\ ret' = NoRet
    /\ UNCHANGED <<ctx, dpb, si, buf0, buf, ts, xv>>

\* query.params().set(args...), with arguments
DaSet(args) ==
    LET r == sqlda_set(da, args)
    IN  /\ call' = [op |-> "set", args |-> args]
        /\ da' = r.da
        /\ ret' = r.ret
        /\ UNCHANGED <<ctx, dpb, si, buf0, buf, ts, xv>>

\* query.params().set(): void set() noexcept { }
DaSetNone ==
    /\ call' = [op |-> "set", args |-> <<>>]
    /\ ret' = NoRet
    /\ UNCHANGED <<ctx, dpb, da, si, buf0, buf, ts, xv>>

\* query::execute(args...): prepare(); if constexpr (sizeof...(Args) > 0)
\* params(sizeof...(Args)).set(args...); invoke_except(isc_dsql_execute,
\* ...), which throws when the server reports an error
Execute(args) ==
    LET r == IF Len(args) > 0 THEN sqlda_set(da, args) ELSE [ret |-> NoRet, da |-> da]
    IN  /\ call' = [op |-> "execute", args |-> args]
        /\ da' = r.da
        /\ ret' \in IF r.ret.threw THEN {r.ret}
                    ELSE {NoRet, Threw(What("isc_dsql_execute", <<>>))}
        /\ UNCHANGED <<ctx, dpb, si, buf0, buf, ts, xv>>

NextDa ==
    \/ \E i \in 1..MaxCols, k \in {4, 8} : ParamAssign(i, SetArgs[k])
    \/ \E idx \in ArgLists : DaSet(Args(idx))
    \/ DaSetNone
    \/ \E idx \in ArgLists \cup {<<>>} : Execute(Args(idx))

SpecDa == InitDa /\ [][NextDa]_vars

---------------------------------------------------------------------------
(* database: the database parameter buffer (DPB) its constructor packs.    *)
(* A parameter is [name, alt, str, num]: its name, the alternative its     *)
(* value holds ("none", "string" or "int") and the value.                  *)

\* isc_dpb_version1, isc_dpb_user_name and isc_dpb_password of ibase.h
isc_dpb_version1 == 1
isc_dpb_user_name == 28
isc_dpb_password == 29

\* the most parameters given to the constructor
MaxParams == 2

\* database::param::param(int name, value_type value = none_t{})
param(name, alt, str, num) == [name |-> name, alt |-> alt, str |-> str, num |-> num]

\* void database::param::pack(std::vector<char>& dpb) const noexcept: the
\* vector afterwards; push_back converts its argument to char
pack(vec, p) ==
    LET name == Append(vec, Convert(char_t, p.name))
    IN  CASE p.alt = "none" -> name
          [] p.alt = "string" -> Append(name, Convert(char_t, Len(p.str))) \o p.str
          [] p.alt = "int" -> Append(name, Convert(char_t, p.num))

\* for (auto& p : params) p.pack(_context->_params);
RECURSIVE pack_all(_, _)
pack_all(vec, params) ==
    IF params = <<>> THEN vec
    ELSE pack_all(pack(vec, Head(params)), Tail(params))

\* the parameters given to the constructor: user names and passwords of
\* lengths around the largest a byte can tell, numbers, names alone
Params ==
    LET lens == {0, 1, 2, numeric_limits_max(char_t), numeric_limits_max(uchar_t),
                 numeric_limits_max(uchar_t) + 1, numeric_limits_max(uchar_t) + 2}
    IN  { param(n, "string", [i \in 1..l |-> CharA], 0)
            : n \in {isc_dpb_user_name, isc_dpb_password}, l \in lens }
        \cup { param(isc_dpb_password, "int", <<>>, v) : v \in {0, 3} }
        \cup { param(isc_dpb_user_name, "none", <<>>, 0) }

\* database::context_t::context_t(std::string_view path): _params is empty
InitDpb ==
    /\ dpb = <<>>
    /\ call = NoCall
    /\ ret = NoRet
    /\ si = NoObject
    /\ buf0 = <<>>
    /\ buf = <<>>
    /\ ts = NoObject
    /\ xv = NoObject
    /\ da = NoObject
    /\ ctx = NoObject

\* database::database(std::string_view path, std::initializer_list<param>
\* params) noexcept: param(isc_dpb_version1).pack(_context->_params); then
\* every parameter is packed
Database(params) ==
    /\ call.op = "none"
    /\ call' = [op |-> "database", params |-> params]
    /\ dpb' = pack_all(pack(dpb, param(isc_dpb_version1, "none", <<>>, 0)), params)
    /\ ret' = NoRet
    /\ UNCHANGED <<si, buf0, buf, ts, xv, da, ctx>>

NextDpb ==
    \E n \in 0..MaxParams : \E params \in [1..n -> Params] : Database(params)

SpecDpb == InitDpb /\ [][NextDpb]_vars

---------------------------------------------------------------------------
(* sqlda::alloc_data: the storage of the output fields of a query.  Here   *)
(* da is [sqln, sqld, sqlvar, reserved]: the XSQLDA, whose sqldata and     *)
(* sqlind are offsets from _data_buffer.data() (-1 before any storage is   *)
(* given), and the size reserved in _data_buffer.                          *)

\* mutant: the size of a column is not aligned
aligned_size_exact(x) ==
    x.sqllen + (IF sql_datatype(x) = SQL_VARYING THEN 2 ELSE 0)
\* size_t len = p->sqllen; if (dtype == SQL_VARYING) len += sizeof(short);
\* ... (len + 1) & ~1
aligned_size(x) ==
    LET len == x.sqllen + (IF sql_datatype(x) = SQL_VARYING THEN 2 ELSE 0)
    IN  (len + 1) - ((len + 1) % 2)

\* void sqlda::alloc_data() noexcept: the offsets are calculated column by
\* column up to end(), the storage is reserved and the offsets are applied
alloc_data(d) ==
    LET n == IF d.sqld < d.sqln THEN d.sqld ELSE d.sqln
        offset[i \in 0..n] ==
            IF i = 0 THEN 0 ELSE offset[i - 1] + aligned_size(d.sqlvar[i]) + 2
    IN  [d EXCEPT !.reserved = IF @ < offset[n] THEN offset[n] ELSE @,
                  !.sqlvar = [i \in DOMAIN d.sqlvar |->
                      IF i =< n
                      THEN [d.sqlvar[i] EXCEPT
                              !.sqldata = offset[i - 1],
                              !.sqlind = offset[i - 1] + aligned_size(d.sqlvar[i])]
                      ELSE d.sqlvar[i]]]

\* the fields isc_dsql_prepare describes: CHAR, VARCHAR and INTEGER columns,
\* nullable or not, of the shortest and the longest lengths
FieldColumns ==
    { [sqltype |-> t + flag, sqlscale |-> 0, sqllen |-> l, sqldata |-> 0 - 1, sqlind |-> 0 - 1]
        : t \in {SQL_TEXT, SQL_VARYING}, flag \in {0, 1},
          l \in {0, 1, 2, 3, numeric_limits_max(int16_t)} }
    \cup { [sqltype |-> SQL_LONG + flag, sqlscale |-> 0, sqllen |-> 4,
            sqldata |-> 0 - 1, sqlind |-> 0 - 1] : flag \in {0, 1} }

\* query::prepare() before it allocates the buffer: _fields(5), reserved
\* again when the statement has more columns
InitAlloc ==
    /\ \E n \in 1..MaxCols : \E cols \in [1..n -> FieldColumns] :
          da = [sqln |-> IF n < 5 THEN 5 ELSE n, sqld |-> n, sqlvar |-> cols,
                reserved |-> 0]
    /\ call = NoCall
    /\ ret = NoRet
    /\ si = NoObject
    /\ buf0 = <<>>
    /\ buf = <<>>
    /\ ts = NoObject
    /\ xv = NoObject
    /\ ctx = NoObject
    /\ dpb = NoObject

\* c->_fields.alloc_data()
AllocData ==
    /\ call' = [op |-> "alloc_data"]
    /\ da' = alloc_data(da)
    /\ ret' = NoRet
    /\ UNCHANGED <<si, buf0, buf, ts, xv, ctx, dpb>>

SpecAlloc == InitAlloc /\ [][AllocData]_vars

---------------------------------------------------------------------------
(* query and transaction: the calls they make to the client library.  ctx  *)
(* holds the contexts behind one query and its transaction: the            *)
(* transaction handle tr and the statement handle stmt (0 or 1), the       *)
(* flags of query::context_t, the number sqld of output fields, whether    *)
(* the server holds an open cursor for the statement and how many rows     *)
(* pos it has delivered, the iterator it the caller holds, and how often   *)
(* the statement was allocated and prepared and its buffer allocated.      *)
(* An operation is run as [c, api, threw]: the contexts, the calls made    *)
(* so far, each [fn, tr, cursor, row] with the handle and the cursor it    *)
(* met and whether it delivered a row, and whether an exception is on its  *)
(* way out.  fail names the call the server answers with an error.         *)

\* the most rows a statement returns
MaxRows == 2
\* the most calls the server fails without a reason in the contexts
MaxFailures == 1
\* the most times query::prepare() gets to allocate a statement
MaxCalls == 2

\* the calls the server refuses for the state of the handles: a statement
\* allocated into a handle in use, a call within a transaction without a
\* transaction, a statement executed while its cursor is open
Rejected(c, fn) ==
    \/ fn = "isc_dsql_allocate_statement" /\ c.stmt /= 0
    \/ fn \in {"isc_dsql_prepare", "isc_dsql_execute", "isc_create_blob",
               "isc_commit_transaction", "isc_rollback_transaction"} /\ c.tr = 0
    \/ fn = "isc_dsql_execute" /\ c.cursor

\* what a call that succeeds does to the handles it is given
Effect(c, fn) ==
    CASE fn = "isc_start_transaction" -> [c EXCEPT !.tr = 1]
      [] fn \in {"isc_commit_transaction", "isc_rollback_transaction"} ->
            [c EXCEPT !.tr = 0, !.cursor = FALSE]
      [] fn = "isc_dsql_allocate_statement" -> [c EXCEPT !.stmt = 1]
      [] fn = "isc_dsql_prepare" -> [c EXCEPT !.sqld = IF c.select THEN 1 ELSE 0]
      [] fn = "isc_dsql_execute" -> [c EXCEPT !.cursor = c.sqld > 0, !.pos = 0]
      [] fn = "DSQL_close" -> [c EXCEPT !.cursor = FALSE]
      [] fn = "DSQL_drop" -> [c EXCEPT !.cursor = FALSE, !.stmt = 0]
      [] OTHER -> c

\* invoke_except(fn, args...): ISC_STATUS ret = fn(st, args...);
\* if (st[0] == 1 && st[1]) throw fb::exception(st);
invoke_except(r, fn, fail) ==
    IF r.threw THEN r
    ELSE LET err == fn = fail \/ Rejected(r.c, fn)
             c   == [r.c EXCEPT
                       !.allocated = @ + (IF fn = "isc_dsql_allocate_statement" THEN 1 ELSE 0),
                       !.prepared = @ + (IF fn = "isc_dsql_prepare" THEN 1 ELSE 0),
                       !.failures = @ + (IF fn = fail /\ ~Rejected(r.c, fn) THEN 1 ELSE 0)]
         IN  [c |-> IF err THEN c ELSE Effect(c, fn),
              api |-> Append(r.api, [fn |-> fn, tr |-> r.c.tr, cursor |-> r.c.cursor,
                                     row |-> FALSE]),
              threw |-> err]

\* void transaction::start(): if (!c->_handle) invoke_except(
\* isc_start_transaction, ...)
start(r, fail) ==
    IF r.threw \/ r.c.tr /= 0 THEN r
    ELSE invoke_except(r, "isc_start_transaction", fail)

\* void query::prepare(): if (c->_is_prepared) return; c->_trans.start();
\* isc_dsql_allocate_statement; isc_dsql_prepare; the fields are five at
\* most here, so they are not described again; alloc_data() if there are
\* fields; c->_is_prepared = true
prepare(r, fail) ==
    IF r.threw \/ r.c.is_prepared THEN r
    ELSE LET b == invoke_except(invoke_except(start(r, fail),
                     "isc_dsql_allocate_statement", fail), "isc_dsql_prepare", fail)
         IN  IF b.threw THEN b
             ELSE [b EXCEPT !.c.is_prepared = TRUE,
                            !.c.buffers = @ + (IF b.c.sqld > 0 THEN 1 ELSE 0)]

\* mutant: the cursor is left open behind the last row
fetch_open(r, row) ==
    LET got == row /\ r.c.cursor /\ r.c.pos < MaxRows
    IN  [r EXCEPT !.c.is_data_available = got,
                  !.c.pos = @ + (IF got THEN 1 ELSE 0),
                  !.api = Append(@, [fn |-> "isc_dsql_fetch", tr |-> r.c.tr,
                                     cursor |-> r.c.cursor, row |-> got])]
\* bool query::context_t::fetch() noexcept: _is_data_available =
\* invoke_noexcept(isc_dsql_fetch, ...) == 0; return _is_data_available ||
\* (close(), false); close() is invoke_noexcept(isc_dsql_free_statement,
\* &_handle, DSQL_close).  row: the server has another row.
fetch(r, row) ==
    LET got == row /\ r.c.cursor /\ r.c.pos < MaxRows
        f   == [r EXCEPT !.c.is_data_available = got,
                         !.c.pos = @ + (IF got THEN 1 ELSE 0),
                         !.api = Append(@, [fn |-> "isc_dsql_fetch", tr |-> r.c.tr,
                                            cursor |-> r.c.cursor, row |-> got])]
    IN  IF got THEN f
        ELSE [invoke_except(f, "DSQL_close", "none") EXCEPT !.threw = FALSE]

\* query::foreach(cb): for (; c->_is_data_available; c->fetch())
\* c->_fields.visit(cb); rows: how many more rows the server has.  The run
\* with the rows cb was called for.
RECURSIVE foreach(_, _, _)
foreach(r, rows, visited) ==
    IF ~r.c.is_data_available THEN [run |-> r, visited |-> visited]
    ELSE foreach(fetch(r, rows > 0), rows - 1, Append(visited, r.c.pos))

\* the run an operation starts as
Run == [c |-> ctx, api |-> <<>>, threw |-> FALSE]

\* fb::query q(db, sql): query::context_t::context_t, over a transaction
\* that is not started; the statement is a SELECT or not
InitQuery ==
    /\ \E select \in BOOLEAN :
          ctx = [tr |-> 0, stmt |-> 0, is_prepared |-> FALSE, is_data_available |-> FALSE,
                 params |-> FALSE, select |-> select, sqld |-> 0, cursor |-> FALSE,
                 pos |-> 0, it |-> "none", alive |-> TRUE,
                 failures |-> 0, allocated |-> 0, prepared |-> 0, buffers |-> 0]
    /\ call = [op |-> "query", api |-> <<>>]
    /\ ret = NoRet
    /\ si = NoObject
    /\ buf0 = <<>>
    /\ buf = <<>>
    /\ ts = NoObject
    /\ xv = NoObject
    /\ da = NoObject
    /\ dpb = NoObject

\* the operation op ends as the run r
Done(op, r) ==
    /\ call' = [op |-> op, api |-> r.api]
    /\ ctx' = r.c
    /\ ret' = IF r.threw THEN Threw(What("isc error", <<>>)) ELSE NoRet
    /\ UNCHANGED <<si, buf0, buf, ts, xv, da, dpb>>

\* tr.start()
Start(fail) ==
    /\ fail /= "none" => ctx.failures < MaxFailures
    /\ Done("start", start(Run, fail))

\* tr.commit() and db.commit(): invoke_except(isc_commit_transaction, ...)
Commit(fail) ==
    /\ fail /= "none" => ctx.failures < MaxFailures
    /\ Done("commit", invoke_except(Run, "isc_commit_transaction", fail))

\* tr.rollback() and db.rollback()
Rollback(fail) ==
    /\ fail /= "none" => ctx.failures < MaxFailures
    /\ Done("rollback", invoke_except(Run, "isc_rollback_transaction", fail))

\* tr.execute_immediate(sql): start(); invoke_except(
\* isc_dsql_execute_immediate, ...)
ExecuteImmediate(fail) ==
    /\ fail /= "none" => ctx.failures < MaxFailures
    /\ Done("execute_immediate",
            invoke_except(start(Run, fail), "isc_dsql_execute_immediate", fail))

\* fb::blob(tr).set(text): blob::context_t(tr) starts the transaction and
\* creates the blob, set writes a chunk and closes the blob; the destructor
\* closes it when set threw
BlobSet(fail) ==
    LET a == invoke_except(start(Run, fail), "isc_create_blob", fail)
        b == invoke_except(a, "isc_put_segment", fail)
    IN  /\ fail /= "none" => ctx.failures < MaxFailures
        /\ Done("blob", IF a.threw THEN a
                        ELSE [invoke_except([b EXCEPT !.threw = FALSE], "isc_close_blob", "none")
                                EXCEPT !.threw = b.threw])

\* q.prepare()
Prepare(fail) ==
    /\ fail /= "none" => ctx.failures < MaxFailures
    /\ ctx.alive
    /\ ctx.allocated < MaxCalls
    /\ Done("prepare", prepare(Run, fail))

\* q.params(): on first use prepare(), _params.reserve(...) and
\* isc_dsql_describe_bind
QueryParams(fail) ==
    /\ fail /= "none" => ctx.failures < MaxFailures
    /\ ctx.alive
    /\ ctx.allocated < MaxCalls
    /\ LET a == prepare(Run, fail)
       IN  Done("params",
                IF a.threw \/ ctx.params THEN a
                ELSE invoke_except([a EXCEPT !.c.params = TRUE],
                                   "isc_dsql_describe_bind", fail))

\* q.execute(): prepare(); invoke_except(isc_dsql_execute, ...);
\* if (c->_fields.size()) c->fetch();
QueryExecute(fail, row) ==
    /\ fail /= "none" => ctx.failures < MaxFailures
    /\ ctx.alive
    /\ ctx.allocated < MaxCalls
    /\ LET a == invoke_except(prepare(Run, fail), "isc_dsql_execute", fail)
       IN  Done("execute", IF ~a.threw /\ a.c.sqld > 0 THEN fetch(a, row) ELSE a)

\* it = q.begin(): _is_data_available ? _context.get() : end()
Begin ==
    /\ ctx.alive
    /\ Done("begin", [Run EXCEPT !.c.it = IF ctx.is_data_available THEN "ctx" ELSE "end"])

\* ++it: if (!_ctx->fetch()) _ctx = nullptr;
Increment(row) ==
    /\ ctx.alive
    /\ ctx.it = "ctx"
    /\ LET a == fetch(Run, row)
       IN  Done("increment", [a EXCEPT !.c.it = IF a.c.is_data_available THEN "ctx" ELSE "end"])

\* q.foreach(cb)
Foreach(rows) ==
    /\ ctx.alive
    /\ LET f == foreach(Run, rows, <<>>)
       IN  /\ call' = [op |-> "foreach", api |-> f.run.api, visited |-> f.visited,
                       available |-> ctx.is_data_available, pos |-> ctx.pos]
           /\ ctx' = f.run.c
           /\ ret' = NoRet
           /\ UNCHANGED <<si, buf0, buf, ts, xv, da, dpb>>

\* mutant: the query commits its transaction when it goes
DestroyQueryCommitting ==
    /\ ctx.alive
    /\ Done("destroy",
            [invoke_except(invoke_except(Run, "isc_commit_transaction", "none"),
                           "DSQL_drop", "none")
                EXCEPT !.threw = FALSE, !.c.alive = FALSE, !.c.it = "none"])
\* the query goes out of scope: ~context_t() noexcept { close(DSQL_drop); }
DestroyQuery ==
    /\ ctx.alive
    /\ Done("destroy",
            [invoke_except(Run, "DSQL_drop", "none")
                EXCEPT !.threw = FALSE, !.c.alive = FALSE, !.c.it = "none"])

\* db.disconnect(), and the database going out of scope:
\* invoke_noexcept(isc_detach_database, &_handle)
Disconnect ==
    LET r == invoke_except(Run, "isc_detach_database", "none")
    IN  /\ call' = [op |-> "disconnect", api |-> r.api]
        /\ ctx' = r.c
        /\ ret' = NoRet
        /\ UNCHANGED <<si, buf0, buf, ts, xv, da, dpb>>

\* the calls that may fail in an operation, "none" for none
Failing ==
    {"none", "isc_start_transaction", "isc_commit_transaction",
     "isc_rollback_transaction", "isc_dsql_execute_immediate", "isc_create_blob",
     "isc_put_segment", "isc_dsql_allocate_statement", "isc_dsql_prepare",
     "isc_dsql_describe_bind", "isc_dsql_execute"}

NextQuery ==
    \/ \E fail \in Failing : Start(fail)
    \/ \E fail \in Failing : Commit(fail)
    \/ \E fail \in Failing : Rollback(fail)
    \/ \E fail \in Failing : ExecuteImmediate(fail)
    \/ \E fail \in Failing : BlobSet(fail)
    \/ \E fail \in Failing : Prepare(fail)
    \/ \E fail \in Failing : QueryParams(fail)
    \/ \E fail \in Failing, row \in BOOLEAN : QueryExecute(fail, row)
    \/ Begin
    \/ \E row \in BOOLEAN : Increment(row)
    \/ \E rows \in 0..MaxRows : Foreach(rows)
    \/ DestroyQuery
    \/ Disconnect

SpecQuery == InitQuery /\ [][NextQuery]_vars

---------------------------------------------------------------------------
(* The mathematics the properties are stated in. *)

\* mantissa x 10^scale, the quotient truncated toward zero for a negative
\* scale, lies in the range of U
FitsIn(U, v, s) ==
    IF s =< 0
    THEN /\ numeric_limits_min(U) =< CDiv(v, 10^(0 - s))
         /\ CDiv(v, 10^(0 - s)) =< numeric_limits_max(U)
    ELSE /\ CDiv(numeric_limits_min(U), 10^s) =< v
         /\ v =< numeric_limits_max(U) \div (10^s)

\* mantissa x 10^scale, the quotient truncated toward zero
ScaledValue(v, s) ==
    IF s >= 0 THEN v * 10^s ELSE CDiv(v, 10^(0 - s))

\* the decimal text of v x 10^s for v /= 0: the digits of |v|, followed by
\* s zeros (s >= 0) or with a '.' before the last |s| of them, padded on
\* the left with zeros so that one digit stands before the '.'
DecimalText(v, s) ==
    LET d    == Digits(v)
        sign == IF v < 0 THEN <<CharMinus>> ELSE <<>>
        k    == 0 - s
        pad  == IF Len(d) > k THEN d ELSE Repeat(CharZero, k + 1 - Len(d)) \o d
    IN  IF s >= 0
        THEN sign \o d \o Repeat(CharZero, s)
        ELSE sign \o SubSeq(pad, 1, Len(pad) - k) \o <<CharDot>>
                  \o SubSeq(pad, Len(pad) - k + 1, Len(pad))

\* the text to_string renders for the object when the buffer has room (the
\* 64 bytes of the owning to_string()), for the value std::abs produced in
\* the call at hand
RenderedText ==
    LET rs == { r \in to_string_owning(si.T, si._value, si._scale, 35) :
                  r.absv = ret.absv }
    IN  (CHOOSE r \in rs : TRUE).text

\* the column is null: its nullable flag is set and its indicator negative
NullColumn(x) == x.sqltype % 2 = 1 /\ x.sqlind < 0

\* the SQL type tag of the column, without the nullable flag
TagOf(x) == x.sqltype - (x.sqltype % 2)

\* the text a TEXT or VARYING column holds
TextOf(x) ==
    IF TagOf(x) = SQL_TEXT THEN SubSeq(x.sqldata.chars, 1, x.sqllen)
    ELSE SubSeq(x.sqldata.PARAMVARY.vary_string, 1, x.sqldata.PARAMVARY.vary_length)

\* the digits s without leading zeros
RECURSIVE StripZeros(_)
StripZeros(s) ==
    IF s /= <<>> /\ Head(s) = CharZero THEN StripZeros(Tail(s)) ELSE s

\* the number written by the digits a is at most the one written by b
\* (neither with leading zeros)
DigitsLeq(a, b) ==
    \/ Len(a) < Len(b)
    \/ /\ Len(a) = Len(b)
       /\ \/ a = b
          \/ \E i \in 1..Len(a) :
                a[i] < b[i] /\ \A j \in 1..(i - 1) : a[j] = b[j]

\* chars, as a whole, is a number of the arithmetic type T: for an integer
\* type digits, after a '-' for a negative number, of a value in the range
\* of T; for a floating type digits with at most one '.' among them
WholeNumber(T, chars) ==
    LET neg == chars /= <<>> /\ Head(chars) = CharMinus
        d   == IF neg THEN Tail(chars) ELSE chars
    IN  IF T \in FloatingTypes
        THEN /\ \E i \in 1..Len(d) : IsDigit(d[i])
             /\ \A i \in 1..Len(d) : IsDigit(d[i]) \/ d[i] = CharDot
             /\ Cardinality({ i \in 1..Len(d) : d[i] = CharDot }) =< 1
        ELSE /\ d /= <<>>
             /\ \A i \in 1..Len(d) : IsDigit(d[i])
             /\ DigitsLeq(StripZeros(d),
                          Digits(IF neg THEN numeric_limits_min(T)
                                        ELSE numeric_limits_max(T)))

\* a conversion from the alternative alt to T that the converters define:
\* to the same type, from text or a scaled integer to an arithmetic type,
\* from text, a float, a double or a scaled integer to std::string
Handled(alt, T) ==
    \/ alt = T
    \/ is_arithmetic(T) /\ (alt = string_view_t \/ alt.name = "scaled_integer")
    \/ T = string_t
       /\ (alt \in {string_view_t, float_t, double_t} \/ alt.name = "scaled_integer")

\* the alternatives as_variant() can return for the column
HeldFields(x) == { f.val : f \in { g \in as_variant(x) : ~g.threw } }

---------------------------------------------------------------------------
(* The properties. *)

\* C1: for a signed target U at least as wide as T and a mantissa whose
\* scaled value fits in U, get<U>() does not throw and returns exactly
\* mantissa x 10^scale, truncated toward zero for a negative scale; with a
\* negative scale the scaled value always fits, so get<U>() never throws.
C1_GetExact ==
    (/\ call.op = "get"
     /\ call.U.signed
     /\ call.U.size >= si.T.size
     /\ FitsIn(call.U, si._value, si._scale))
    => (~ret.threw /\ ret.val = ScaledValue(si._value, si._scale))

\* get<int32_t>() of (-42, -1) returned -4: truncated, not floored to -5
C1_Witness ==
    /\ call.op = "get"
    /\ call.U = int32_t
    /\ si = [T |-> int16_t, _value |-> 0 - 42, _scale |-> 0 - 1]
    /\ ~ret.threw
    /\ ret.val = 0 - 4

\* C2: for scale > 0 and a signed target U at least as wide as T,
\* get<U>() throws exactly when mantissa x 10^scale lies outside
\* [min(U), max(U)].
C2_ThrowsIffOutside ==
    (/\ call.op = "get"
     /\ si._scale > 0
     /\ call.U.signed
     /\ call.U.size >= si.T.size)
    => (ret.threw <=> ~FitsIn(call.U, si._value, si._scale))

\* get<int16_t>() of the int16_t (3276, 2) threw: 327600 does not fit
C2_Witness ==
    /\ call.op = "get"
    /\ call.U = int16_t
    /\ si = [T |-> int16_t, _value |-> 3276, _scale |-> 2]
    /\ ret.threw

\* C3: get<U>() throws for every mantissa and scale whenever
\* sizeof(U) < sizeof(T).
C3_NarrowingThrows ==
    (call.op = "get" /\ call.U.size < si.T.size) => ret.threw

\* get<char>() of the int16_t (0, -1) threw although 0 fits in a char
C3_Witness ==
    /\ call.op = "get"
    /\ call.U = char_t
    /\ si = [T |-> int16_t, _value |-> 0, _scale |-> 0 - 1]
    /\ ret.threw

\* C4 as stated: with 32 bit storage, mantissa 3276 and scale 1 convert to
\* a 16 bit target and yield 32760, and scale 2 fails.
C4_Original ==
    (/\ call.op = "get"
     /\ si.T = int32_t
     /\ call.U = int16_t
     /\ si._value = 3276)
    => /\ (si._scale = 1 => (~ret.threw /\ ret.val = 32760))
       /\ (si._scale = 2 => ret.threw)

\* C4 as amended: with 16 bit storage, mantissa 3276 and scale 1 convert to
\* a 16 bit target and yield 32760, and scale 2 fails; with 32 bit storage
\* both conversions to a 16 bit target fail.
C4_Amended ==
    (/\ call.op = "get"
     /\ call.U = int16_t
     /\ si._value = 3276
     /\ si._scale \in {1, 2})
    => /\ (si.T = int16_t /\ si._scale = 1) => (~ret.threw /\ ret.val = 32760)
       /\ (si.T = int16_t /\ si._scale = 2) => ret.threw
       /\ (si.T = int32_t) => ret.threw

\* get<int16_t>() of the int16_t (3276, 1) returned 32760
C4_Witness ==
    /\ call.op = "get"
    /\ call.U = int16_t
    /\ si = [T |-> int16_t, _value |-> 3276, _scale |-> 1]
    /\ ~ret.threw
    /\ ret.val = 32760

\* C5: for every integral target U, signed or unsigned, at least as wide
\* as T, get<U>() returns mantissa x 10^scale (truncated toward zero) or
\* throws, and throws whenever that value is not representable in U.
C5_NeverWrapped ==
    (call.op = "get" /\ call.U.size >= si.T.size)
    => IF FitsIn(call.U, si._value, si._scale)
       THEN ret.threw \/ ret.val = ScaledValue(si._value, si._scale)
       ELSE ret.threw

\* C6: for every non-zero mantissa, the minimum of T included, and every
\* scale < 0, to_string() returns the exact decimal text of
\* mantissa x 10^scale.
C6_NegativeScaleText ==
    (call.op = "to_string" /\ si._scale < 0 /\ si._value /= 0)
    => (~ret.threw /\ ret.text = DecimalText(si._value, si._scale))

C8_RoomForOneMore ==
    (call.op = "to_string_buf")
    => /\ (call.size =< Len(RenderedText)) => ret.threw
       /\ (call.size >= Len(RenderedText) + 1) => ~ret.threw

C10_NoPartialWrite ==
    (call.op = "to_string_buf" /\ ret.threw) => (buf = buf0 /\ ~ret.oob)

\* C11: the owning to_string() never fails for length reasons, for every
\* mantissa of T and every scale of the 16 bit scale field, and it writes
\* nothing outside its 64 byte buffer.
C11_OwningNeverFails ==
    call.op = "to_string" => ~ret.threw

\* C16: from_time_t and to_time_t are inverse on 0 <= t < 2^31: the date of
\* from_time_t(t) is t div 86400 + 40587 and its time (t mod 86400) x 10000,
\* that is, the days since 1970 and the seconds of the day add up to t, and
\* to_time_t(from_time_t(t)) = t with no 32 bit overflow on the way
\* (1717797970 <-> (60468, 22:06:10), 0 <-> (40587, 0)).
C16_TimeRoundTrip ==
    /\ call.op = "from_time_t" =>
          /\ (ts.timestamp_date - GdsEpoch) =< INT_MAX \div SecondsPerDay
          /\ (ts.timestamp_date - GdsEpoch) >= 0
          /\ ts.timestamp_time % TimeUnits = 0
          /\ ts.timestamp_time < SecondsPerDay * TimeUnits
          /\ (ts.timestamp_date - GdsEpoch) * SecondsPerDay
               = call.t - ts.timestamp_time \div TimeUnits
          /\ (call.t = TestTime =>
                ts = [timestamp_date |-> TestDate, timestamp_time |-> TestTimeOfDay])
          /\ (call.t = 0 =>
                ts = [timestamp_date |-> GdsEpoch, timestamp_time |-> 0])
    /\ (call.op = "to_time_t" /\ call.from >= 0) =>
          /\ ~ret.overflow
          /\ ret.val = call.from

\* C16: the round trip of the test's time and of the largest 32 bit time_t
C16_Witness ==
    /\ call.op = "to_time_t"
    /\ call.from = INT_MAX
    /\ ret.val = INT_MAX
    /\ ts.timestamp_date = GdsEpoch + INT_MAX \div SecondsPerDay

\* C17: to_time_t() returns 0 for every timestamp with timestamp_date below
\* 40587, whatever its time of day.
C17_ZeroBefore1970 ==
    (call.op = "to_time_t" /\ ts.timestamp_date < GdsEpoch) => ret.val = 0

\* C12: identity conversions always succeed: value<X>() on a non-null
\* column that holds the alternative X (text-view, scaled integer of each
\* width, float, double, timestamp, blob id) returns the held value.
C12_IdentityConversions ==
    (call.op = "value" /\ ~NullColumn(xv)
       /\ \E f \in HeldFields(xv) : f.alt = call.T)
    => /\ ~ret.threw
       /\ \E f \in HeldFields(xv) : f.alt = call.T /\ f.val = ret.val

\* C13: text converts to an arithmetic type T exactly when the text as a
\* whole is a valid number of type T; empty text, text that does not start
\* with a number, a number followed by other characters and a number
\* outside the range of T fail with a conversion error.
C13_TextToNumber ==
    (call.op = "value" /\ is_arithmetic(call.T) /\ ~NullColumn(xv)
       /\ TagOf(xv) \in {SQL_TEXT, SQL_VARYING})
    => /\ ret.threw <=> ~WholeNumber(call.T, TextOf(xv))
       /\ ret.threw => ret.what.types = <<type_name(call.T)>>

\* C14 as stated: a pair of source alternative and target type without a
\* conversion fails with an error that names the source type and the
\* target type.
C14_Original ==
    (call.op = "value" /\ ~NullColumn(xv)
       /\ \E f \in HeldFields(xv) : ~Handled(f.alt, call.T))
    => /\ ret.threw
       /\ \A f \in HeldFields(xv) :
             \E i, j \in 1..Len(ret.what.types) :
                /\ ret.what.types[i] = type_name(f.alt)
                /\ ret.what.types[j] = type_name(call.T)
                /\ i /= j

\* C14 as amended: a pair of source alternative and target type without a
\* conversion fails with the error "can't convert to type", which names the
\* target type only, and never returns a value.
C14_Amended ==
    (call.op = "value" /\ ~NullColumn(xv)
       /\ \E f \in HeldFields(xv) : ~Handled(f.alt, call.T))
    => /\ ret.threw
       /\ ret.what = What("can't convert to type", <<type_name(call.T)>>)

\* C14: a timestamp asked as std::string
C14_Witness ==
    /\ call.op = "value"
    /\ call.T = string_t
    /\ TagOf(xv) = SQL_TIMESTAMP
    /\ ~NullColumn(xv)
    /\ ret.threw

\* the case as_variant() is to return for a column that is not null and
\* has one of the tags of the claim
ClaimedCase(x) ==
    LET t == TagOf(x)
        Scaled(T, mantissa) ==
            Field(scaled_integer(T), [T |-> T, _value |-> mantissa, _scale |-> x.sqlscale])
    IN  CASE t \in {SQL_TEXT, SQL_VARYING} -> Field(string_view_t, TextOf(x))
          [] t = SQL_SHORT -> Scaled(int16_t, x.sqldata.int16_t)
          [] t = SQL_LONG -> Scaled(int32_t, x.sqldata.int32_t)
          [] t = SQL_INT64 -> Scaled(int64_t, x.sqldata.int64_t)
          [] t = SQL_FLOAT -> Field(float_t, x.sqldata.float)
          [] t = SQL_DOUBLE -> Field(double_t, x.sqldata.double)
          [] t = SQL_TIMESTAMP -> Field(timestamp_t, x.sqldata.timestamp_t)
          [] t \in {SQL_BLOB, SQL_ARRAY} -> Field(blob_id_t, x.sqldata.ISC_QUAD)

\* the tags the claim gives a case to
ClaimedTags ==
    {SQL_TEXT, SQL_VARYING, SQL_SHORT, SQL_LONG, SQL_INT64, SQL_FLOAT, SQL_DOUBLE,
     SQL_TIMESTAMP, SQL_BLOB, SQL_ARRAY}

\* C15 as stated: as_variant() returns the null case for a null column,
\* else the case of the tag (text-view of sqllen characters for TEXT, of
\* vary_length characters for VARYING, scaled integers with mantissa and
\* sqlscale for SHORT, LONG, INT64, float, double, timestamp, blob id for
\* FLOAT, DOUBLE, TIMESTAMP, BLOB/ARRAY), and fails for any other tag.
C15_Original ==
    call.op = "as_variant"
    => IF NullColumn(xv) THEN ret = Returned(NullField)
       ELSE IF TagOf(xv) \in ClaimedTags THEN ret = Returned(ClaimedCase(xv))
       ELSE ret.threw

\* C15 as amended: as stated, but the tags TYPE_DATE and TYPE_TIME do not
\* fail: they yield the timestamp case with the column's value as its date
\* respectively its time, the other member being left uninitialised.
C15_Amended ==
    call.op = "as_variant"
    => IF NullColumn(xv) THEN ret = Returned(NullField)
       ELSE IF TagOf(xv) \in ClaimedTags THEN ret = Returned(ClaimedCase(xv))
       ELSE IF TagOf(xv) = SQL_TYPE_DATE
       THEN /\ ~ret.threw
            /\ ret.val.alt = timestamp_t
            /\ ret.val.val.timestamp_date = xv.sqldata.ISC_DATE
       ELSE IF TagOf(xv) = SQL_TYPE_TIME
       THEN /\ ~ret.threw
            /\ ret.val.alt = timestamp_t
            /\ ret.val.val.timestamp_time = xv.sqldata.ISC_TIME
       ELSE ret.threw

\* C15: a VARCHAR column whose text is shorter than the column
C15_Witness ==
    /\ call.op = "as_variant"
    /\ TagOf(xv) = SQL_VARYING
    /\ ~NullColumn(xv)
    /\ 0 < xv.sqldata.PARAMVARY.vary_length
    /\ xv.sqldata.PARAMVARY.vary_length < xv.sqllen
    /\ ~ret.threw
    /\ Len(ret.val.val) = xv.sqldata.PARAMVARY.vary_length

\* C18: for a null column (nullable flag set, indicator negative) value<T>()
\* throws for every T, value_or(d) returns d, the conversion to bool yields
\* false and as_variant() the null case; for a column that is not null
\* value_or(d) returns or throws what value<T>() returns or throws.
C18_NullHandling ==
    IF NullColumn(xv)
    THEN /\ call.op = "value" => ret.threw /\ ret.what.msg = "type is null"
         /\ call.op = "value_or" => ret = Returned(call.default_value)
         /\ call.op = "bool" => ret = Returned(FALSE)
         /\ call.op = "as_variant" => ret = Returned(NullField)
    ELSE call.op = "value_or" => ret \in value(xv, call.T)

\* C18: value_or on a null column, whose tag has no conversion to T
C18_Witness ==
    /\ call.op = "value_or"
    /\ NullColumn(xv)
    /\ TagOf(xv) = SQL_TIMESTAMP
    /\ call.T = int32_t
    /\ ret = Returned(call.default_value)

\* C19: after set(nullptr), whatever the variable held, is_null() is true,
\* the conversion to bool yields false and as_variant() the null case.
C19_SetNullIsNull ==
    (call.op = "set" /\ call.arg.T = nullptr_t)
    => /\ is_null(xv)
       /\ ~operator_bool(xv)
       /\ as_variant(xv) = {Returned(NullField)}

\* C20: sqlda::set(args...) with arguments, on its own and within
\* query::execute(args...), throws when the number of arguments differs
\* from size() and then leaves every column descriptor as it was; when the
\* numbers are equal the i-th column is assigned the i-th argument, and a
\* column whose argument is fb::skip keeps its type, data and length.
C20_SetByPosition ==
    [][ (call'.op \in {"set", "execute"} /\ call'.args /= <<>>)
        => IF Len(call'.args) /= da.sqld
           THEN ret'.threw /\ da' = da
           ELSE /\ call'.op = "set" => ~ret'.threw
                /\ da'.sqld = da.sqld
                /\ \A i \in 1..da.sqld :
                      IF call'.args[i].T = skip_t
                      THEN /\ da'.sqlvar[i].sqltype = da.sqlvar[i].sqltype
                           /\ da'.sqlvar[i].sqldata = da.sqlvar[i].sqldata
                           /\ da'.sqlvar[i].sqllen = da.sqlvar[i].sqllen
                      ELSE da'.sqlvar[i] = set(da.sqlvar[i], call'.args[i]) ]_vars

\* C20: execute(fb::skip, "180") after p[0] = 200: the first parameter is
\* still the INTEGER 200, the second is the text
C20_Witness ==
    /\ call.op = "execute"
    /\ Len(call.args) = 2
    /\ call.args[1].T = skip_t
    /\ call.args[2].T = string_view_t
    /\ ~ret.threw
    /\ da.sqld = 2
    /\ da.sqlvar[1].sqltype = SQL_LONG
    /\ da.sqlvar[1].sqldata = [int32_t |-> 200]
    /\ da.sqlvar[2].sqltype = SQL_TEXT
    /\ da.sqlvar[2].sqldata = [chars |-> call.args[2].v]

\* the bytes, read as unsigned, hold the parameters in their order: a
\* string as its name, one byte telling its length, and its characters
RECURSIVE Describes(_, _)
Describes(bytes, params) ==
    IF params = <<>> THEN bytes = <<>>
    ELSE LET p == Head(params)
             n == CASE p.alt = "none" -> 1
                    [] p.alt = "string" -> 2 + Len(p.str)
                    [] p.alt = "int" -> 2
         IN  /\ Len(bytes) >= n
             /\ bytes[1] % 256 = p.name
             /\ p.alt = "string" => /\ bytes[2] % 256 = Len(p.str)
                                    /\ SubSeq(bytes, 3, n) = p.str
             /\ Describes(SubSeq(bytes, n + 1, Len(bytes)), Tail(params))

\* C27: the buffer the constructor builds starts with the version byte
\* isc_dpb_version1, the parameters follow in the order given, and a string
\* is encoded as its name byte, a length byte that equals the number of
\* value bytes, and those bytes, whatever the length of the string.
C27_SelfDescribing ==
    call.op = "database"
    => /\ dpb /= <<>>
       /\ Head(dpb) = isc_dpb_version1
       /\ Describes(Tail(dpb), call.params)

\* the bytes a column needs: sqllen, two more for the length prefix of a
\* VARYING column, one more when that is odd
RegionSize(x) ==
    LET len == x.sqllen + (IF TagOf(x) = SQL_VARYING THEN 2 ELSE 0)
    IN  CHOOSE e \in {len, len + 1} : e % 2 = 0

\* the regions of the columns: [from, to) for the data and the indicator
Regions(d) ==
    { [col |-> i, part |-> "data", from |-> d.sqlvar[i].sqldata,
       to |-> d.sqlvar[i].sqldata + RegionSize(d.sqlvar[i])] : i \in 1..d.sqld }
    \cup { [col |-> i, part |-> "ind", from |-> d.sqlvar[i].sqlind,
            to |-> d.sqlvar[i].sqlind + 2] : i \in 1..d.sqld }

\* the sum of the sizes of the regions of the first n columns
RECURSIVE RegionSum(_, _)
RegionSum(d, n) ==
    IF n = 0 THEN 0 ELSE RegionSum(d, n - 1) + RegionSize(d.sqlvar[n]) + 2

\* C25: after alloc_data() the data region of a column is followed at once
\* by its two byte null indicator and that by the data region of the next
\* column; the regions are pairwise disjoint, start at even offsets and lie
\* inside the buffer, whose reserved size is the sum of the region sizes.
C25_ColumnStorage ==
    call.op = "alloc_data"
    => /\ da.sqlvar[1].sqldata = 0
       /\ \A i \in 1..da.sqld :
             /\ da.sqlvar[i].sqlind = da.sqlvar[i].sqldata + RegionSize(da.sqlvar[i])
             /\ i < da.sqld => da.sqlvar[i + 1].sqldata = da.sqlvar[i].sqlind + 2
       /\ \A r \in Regions(da) :
             /\ r.from % 2 = 0
             /\ 0 =< r.from
             /\ r.to =< da.reserved
             /\ \A s \in Regions(da) : r = s \/ r.to =< s.from \/ s.to =< r.from
       /\ da.reserved = RegionSum(da, da.sqld)

\* C25: a VARCHAR column of odd length before another column
C25_Witness ==
    /\ call.op = "alloc_data"
    /\ da.sqld > 1
    /\ TagOf(da.sqlvar[1]) = SQL_VARYING
    /\ da.sqlvar[1].sqllen = 3
    /\ da.sqlvar[1].sqlind = 6
    /\ da.sqlvar[2].sqldata = 8

\* the calls of the last operation to the function fn
CallsOf(fn) == SelectSeq(call.api, LAMBDA e : e.fn = fn)

\* C21: across prepare(), params() and execute(), failed attempts of
\* prepare() included, the statement handle is allocated at most once, the
\* statement prepared at most once and the receive buffer allocated at
\* most once.
C21_PreparedOnce ==
    /\ ctx.allocated =< 1
    /\ ctx.prepared =< 1
    /\ ctx.buffers =< 1

\* C22: isc_dsql_execute is never issued on a statement whose cursor, opened
\* by an earlier execute(), is still open, whether or not the caller has
\* read all rows.
C22_CursorClosedBeforeExecute ==
    \A i \in DOMAIN call.api :
        call.api[i].fn = "isc_dsql_execute" => ~call.api[i].cursor

\* C23: after execute() of a statement with fields begin() is end() exactly
\* when the first fetch returned no row; an increment makes one fetch and
\* the iterator becomes end() exactly when that fetch returns no row, and
\* then the cursor is closed; foreach(cb) calls cb for the row at hand and
\* once for every row fetched after it, in the order of the server, and
\* returns at the fetch without a row, so that it calls cb zero times when
\* called again.
C23_RowIteration ==
    /\ (call.op = "execute" /\ ~ret.threw /\ ctx.sqld > 0)
       => /\ Len(CallsOf("isc_dsql_fetch")) = 1
          /\ ctx.is_data_available = CallsOf("isc_dsql_fetch")[1].row
    /\ call.op = "begin" => (ctx.it = "end" <=> ~ctx.is_data_available)
    /\ call.op = "increment"
       => /\ Len(CallsOf("isc_dsql_fetch")) = 1
          /\ ctx.it = "end" <=> ~CallsOf("isc_dsql_fetch")[1].row
          /\ ctx.it = "end" <=> ~ctx.is_data_available
          /\ ctx.it = "end" => /\ ~ctx.cursor
                               /\ call.api[Len(call.api)].fn = "DSQL_close"
    /\ call.op = "foreach"
       => /\ ~ctx.is_data_available
          /\ ~call.available => call.visited = <<>> /\ call.api = <<>>
          /\ call.available
             => LET fetches == CallsOf("isc_dsql_fetch")
                    n == Len(fetches)
                IN  /\ n = Len(call.visited)
                    /\ \A i \in 1..n : fetches[i].row <=> i < n
                    /\ \A i \in 1..n : call.visited[i] = call.pos + i - 1
                    /\ ~ctx.cursor

\* C23: foreach called cb for two rows and came to the end
C23_Witness ==
    /\ call.op = "foreach"
    /\ call.visited = <<1, 2>>
    /\ ~ctx.is_data_available
    /\ ~ctx.cursor

\* the calls that are made within a transaction
NeedsTransaction ==
    {"isc_dsql_prepare", "isc_dsql_execute", "isc_dsql_execute_immediate",
     "isc_create_blob"}

\* C24: isc_start_transaction is never invoked while the transaction handle
\* is not zero, and an operation that needs a transaction has started one
\* when it makes its call, also after a commit() or rollback() has reset
\* the handle.
C24_StartedWhenNeeded ==
    \A i \in DOMAIN call.api :
        /\ call.api[i].fn = "isc_start_transaction" => call.api[i].tr = 0
        /\ call.api[i].fn \in NeedsTransaction => call.api[i].tr /= 0

\* C26: isc_commit_transaction is invoked by commit() only and
\* isc_rollback_transaction by rollback() only; no other operation, the
\* destruction of the query and the disconnection of the database
\* included, commits or rolls back.
C26_ExplicitCommitOnly ==
    \A i \in DOMAIN call.api :
        /\ call.api[i].fn = "isc_commit_transaction" => call.op = "commit"
        /\ call.api[i].fn = "isc_rollback_transaction" => call.op = "rollback"

\* C26: a query goes while its transaction is pending
C26_Witness ==
    /\ call.op = "destroy"
    /\ ctx.tr /= 0
    /\ ~ctx.alive
    /\ Len(CallsOf("DSQL_drop")) = 1

====
